---- MODULE Spec2Model ----
(***************************************************************************)
(* Contact / note directory: field validators, Record, AddressBook and     *)
(* NotesBook.  A Python str is a sequence of one-character tokens; a       *)
(* character outside ASCII is written by its code point ("U+0663").        *)
(***************************************************************************)
EXTENDS Integers, Sequences, FiniteSets, TLC

VARIABLES call, record, rlast, address_book, notes_book, blast, reader

vars == <<call, record, rlast, address_book, notes_book, blast, reader>>

----------------------------------------------------------------------------
(* Characters and the character predicates of Python's str and re.         *)

AsciiDigits == {"0", "1", "2", "3", "4", "5", "6", "7", "8", "9"}

AsciiLetters == {"a", "b", "c", "n", "o", "t", "Z"}

\* U+0663 ARABIC-INDIC DIGIT THREE (category Nd), U+00B2 SUPERSCRIPT TWO
\* (category No, digit property), U+00E9 LATIN SMALL LETTER E WITH ACUTE.
NonAscii == {"U+0663", "U+00B2", "U+00E9"}

LF == "LF"

Chars == AsciiDigits \cup AsciiLetters \cup NonAscii
           \cup {"_", ".", "-", "@", "+", " ", LF}

\* str.isdigit(): true of every character with the Unicode digit property
IsDigit(c) == c \in AsciiDigits \cup {"U+0663", "U+00B2"}

\* re \d on a str pattern: the Unicode decimal digits
ReDigit(c) == c \in AsciiDigits \cup {"U+0663"}

\* re \w on a str pattern: alphanumerics of any script and the underscore
ReWord(c) == c \in AsciiDigits \cup AsciiLetters \cup NonAscii \cup {"_"}

\* the bracket expressions of the email pattern
InClass(cls, c) ==
    CASE cls = "[\\w\\.-]"       -> ReWord(c) \/ c \in {".", "-"}
      [] cls = "[a-zA-Z\\d\\.-]" -> c \in AsciiLetters \/ ReDigit(c) \/ c \in {".", "-"}
      [] cls = "[a-zA-Z]"        -> c \in AsciiLetters
      [] cls = "@"               -> c = "@"
      [] cls = "\\."             -> c = "."
      [] OTHER                   -> FALSE

----------------------------------------------------------------------------
(* Outcomes of a call: a returned value or a raised exception.             *)

Return(v) == [err |-> "none", ret |-> v]

Raise(e) == [err |-> e, ret |-> <<>>]

----------------------------------------------------------------------------
(* The content of a file and the state of the BookReader scope.            *)

\* no file at the path
Missing == [kind |-> "missing"]

\* text that json.load cannot parse
Garbage == [kind |-> "text"]

\* bytes that the text decoder of open(path, "r") cannot decode
Undecodable == [kind |-> "bytes"]

\* the text json.dump writes for doc, which json.load reads back as doc
Json(doc) == [kind |-> "json", doc |-> doc]

\* before the scope is entered: neither file there, nothing written
IdleReader ==
    [pc |-> "out", users |-> Missing, notes |-> Missing,
     users_writes |-> 0, notes_writes |-> 0, sessions |-> 0]

----------------------------------------------------------------------------
(* Phone.validate_phone                                                    *)

PhoneLen == 10

validate_phone(phone) ==
    IF Len(phone) # PhoneLen
    THEN Raise("ValueError")
    ELSE IF \E i \in 1..Len(phone) : ~IsDigit(phone[i])
         THEN Raise("ValueError")
         ELSE Return(phone)

----------------------------------------------------------------------------
(* Email.validate_email: re.match of the pattern, item by item.            *)
(* An item is a bracket expression with a repetition {lo,} or {lo,lo}.     *)

Item(cls, lo, more) == [cls |-> cls, lo |-> lo, more |-> more]

\* the pattern with the word class in the domain part as well
EmailPatternWordDomain ==
    << Item("[\\w\\.-]", 1, TRUE), Item("@", 1, FALSE),
       Item("[\\w\\.-]", 1, TRUE), Item("\\.", 1, FALSE),
       Item("[a-zA-Z]", 2, TRUE) >>

EmailPattern ==
    << Item("[\\w\\.-]", 1, TRUE), Item("@", 1, FALSE),
       Item("[a-zA-Z\\d\\.-]", 1, TRUE), Item("\\.", 1, FALSE),
       Item("[a-zA-Z]", 2, TRUE) >>

\* positions where a match of item it can end when it starts in starts
ItemEnds(it, s, starts) ==
    { j \in 0..Len(s) :
        \E i \in starts :
            /\ j - i >= it.lo
            /\ (~it.more => j - i = it.lo)
            /\ \A k \in (i + 1)..j : InClass(it.cls, s[k]) }

RECURSIVE PatternEnds(_, _, _, _)
PatternEnds(pat, n, s, starts) ==
    IF n > Len(pat) THEN starts
    ELSE PatternEnds(pat, n + 1, s, ItemEnds(pat[n], s, starts))

\* $ matches at the end of the string and just before a final newline
AtDollar(s, e) == e = Len(s) \/ (e = Len(s) - 1 /\ s[Len(s)] = LF)

\* re.match(r"^...$", s) is not None
re_match(pat, s) == \E e \in PatternEnds(pat, 1, s, {0}) : AtDollar(s, e)

validate_email(email) ==
    IF re_match(EmailPattern, email) THEN Return(email) ELSE Raise("ValueError")

----------------------------------------------------------------------------
(* Python values: None, a str, a datetime.date, and a Field object         *)
(* holding a value.  An attribute is either an object or None.             *)

PyNone == [kind |-> "None"]

Str(s) == [kind |-> "str", s |-> s]

Date(y, m, d) == [kind |-> "date", y |-> y, m |-> m, d |-> d]

Field(value) == [kind |-> "Field", value |-> value]

NoneStr == Str(<<"N", "o", "n", "e">>)

----------------------------------------------------------------------------
(* Birthday: datetime.strptime(date_str, "%Y.%m.%d").date()                *)

DigitVal(c) ==
    CASE c = "0" -> 0 [] c = "1" -> 1 [] c = "2" -> 2 [] c = "3" -> 3
      [] c = "4" -> 4 [] c = "5" -> 5 [] c = "6" -> 6 [] c = "7" -> 7
      [] c = "8" -> 8 [] c = "9" -> 9 [] c = "U+0663" -> 3 [] OTHER -> 0

IsLeap(y) == (y % 4 = 0 /\ y % 100 # 0) \/ y % 400 = 0

DaysInMonth(y, m) ==
    IF m = 2 THEN (IF IsLeap(y) THEN 29 ELSE 28)
    ELSE IF m \in {4, 6, 9, 11} THEN 30 ELSE 31

\* %m is 1[0-2]|0[1-9]|[1-9]
MonthToken(t) ==
    \/ Len(t) = 2 /\ t[1] = "1" /\ t[2] \in {"0", "1", "2"}
    \/ Len(t) = 2 /\ t[1] = "0" /\ t[2] \in AsciiDigits \ {"0"}
    \/ Len(t) = 1 /\ t[1] \in AsciiDigits \ {"0"}

\* %d is 3[0-1]|[1-2]\d|0[1-9]|[1-9]| [1-9]
DayToken(t) ==
    \/ Len(t) = 2 /\ t[1] = "3" /\ t[2] \in {"0", "1"}
    \/ Len(t) = 2 /\ t[1] \in {"1", "2"} /\ ReDigit(t[2])
    \/ Len(t) = 2 /\ t[1] \in {"0", " "} /\ t[2] \in AsciiDigits \ {"0"}
    \/ Len(t) = 1 /\ t[1] \in AsciiDigits \ {"0"}

TokenVal(t) ==
    IF Len(t) = 1 THEN DigitVal(t[1])
    ELSE DigitVal(t[1]) * 10 + DigitVal(t[2])

\* the ways s splits as YYYY.M.D with every character consumed
DateSplits(s) ==
    { ml \in {1, 2} :
        /\ Len(s) \in {7 + ml, 8 + ml}
        /\ \A i \in 1..4 : ReDigit(s[i])
        /\ s[5] = "."
        /\ MonthToken(SubSeq(s, 6, 5 + ml))
        /\ s[6 + ml] = "."
        /\ DayToken(SubSeq(s, 7 + ml, Len(s))) }

validate_date(date_str) ==
    IF date_str.kind # "str" THEN Raise("ValueError")
    ELSE LET s == date_str.s
             splits == DateSplits(s)
         IN  IF splits = {} THEN Raise("ValueError")
             ELSE LET ml == CHOOSE x \in splits : TRUE
                      y == DigitVal(s[1]) * 1000 + DigitVal(s[2]) * 100
                             + DigitVal(s[3]) * 10 + DigitVal(s[4])
                      m == TokenVal(SubSeq(s, 6, 5 + ml))
                      d == TokenVal(SubSeq(s, 7 + ml, Len(s)))
                  IN  IF y < 1 \/ d > DaysInMonth(y, m)
                      THEN Raise("ValueError")
                      ELSE Return(Date(y, m, d))

\* Birthday.__init__: None and the text None are stored as they are
BirthdayInit(value) ==
    IF value # PyNone /\ value # NoneStr
    THEN LET r == validate_date(value)
         IN  IF r.err # "none" THEN r ELSE Return(Field(r.ret))
    ELSE Return(Field(value))

\* Phone.__init__
PhoneInit(phone) ==
    LET r == validate_phone(phone)
    IN  IF r.err # "none" THEN r ELSE Return(Field(Str(r.ret)))

\* Address.__init__
AddressInit(address) == Return(Field(address))

\* Email.__init__
EmailInit(email) == Return(Field(email))

----------------------------------------------------------------------------
(* Record.  phones is the list of Phone objects in list order.  An         *)
(* operation yields the record it leaves and the exception it raised.      *)

Done(rec) == [err |-> "none", rec |-> rec]

Fail(e, rec) == [err |-> e, rec |-> rec]

\* the Phone objects built from the first n strings, or the first failure
RECURSIVE PhoneList(_, _)
PhoneList(phones, n) ==
    IF n = 0 THEN Return(<<>>)
    ELSE LET head == PhoneList(phones, n - 1)
         IN  IF head.err # "none" THEN head
             ELSE LET p == PhoneInit(phones[n])
                  IN  IF p.err # "none" THEN p
                      ELSE Return(Append(head.ret, p.ret))

\* Record.__init__(name_, phones, birthday, address, email)
RecordInit(name_, phones, birthday, address, email) ==
    LET ps == PhoneList(phones, Len(phones))
        b  == BirthdayInit(birthday)
    IN  IF ps.err # "none" THEN Raise(ps.err)
        ELSE IF b.err # "none" THEN Raise(b.err)
        ELSE Return([name     |-> Field(Str(name_)),
                     phones   |-> ps.ret,
                     birthday |-> b.ret,
                     address  |-> AddressInit(address).ret,
                     email    |-> EmailInit(email).ret])

\* Record.find_phone: the index of the first phone with that value; 0 is KeyError
find_phone(rec, phone) ==
    IF \E i \in 1..Len(rec.phones) : rec.phones[i].value = Str(phone)
    THEN CHOOSE i \in 1..Len(rec.phones) :
            /\ rec.phones[i].value = Str(phone)
            /\ \A j \in 1..(i - 1) : rec.phones[j].value # Str(phone)
    ELSE 0

\* list.remove of the object at index i
RemoveAt(seq, i) == SubSeq(seq, 1, i - 1) \o SubSeq(seq, i + 1, Len(seq))

\* add_phone without the look-up of the phone
add_phone_no_lookup(rec, phone) ==
    LET p == PhoneInit(phone)
    IN  IF p.err # "none" THEN Fail(p.err, rec)
        ELSE Done([rec EXCEPT !.phones = Append(@, p.ret)])

\* Record.add_phone
add_phone(rec, phone) ==
    IF find_phone(rec, phone) # 0
    THEN Done(rec)
    ELSE LET p == PhoneInit(phone)
         IN  IF p.err # "none" THEN Fail(p.err, rec)
             ELSE Done([rec EXCEPT !.phones = Append(@, p.ret)])

\* Record.remove_phone
remove_phone(rec, phone) ==
    LET i == find_phone(rec, phone)
    IN  IF i = 0 THEN Fail("KeyError", rec)
        ELSE Done([rec EXCEPT !.phones = RemoveAt(@, i)])

\* Record.edit_phone
edit_phone(rec, phone, new_phone) ==
    LET v == validate_phone(new_phone)
    IN  IF v.err # "none" THEN Fail(v.err, rec)
        ELSE LET r == remove_phone(rec, phone)
             IN  IF r.err # "none" THEN r
                 ELSE add_phone(r.rec, v.ret)

\* Record.add_email
add_email(rec, email_str) ==
    LET v == validate_email(email_str)
    IN  IF v.err # "none" THEN Fail(v.err, rec)
        ELSE Done([rec EXCEPT !.email = EmailInit(Str(v.ret)).ret])

\* Record.remove_email
remove_email(rec) == Done([rec EXCEPT !.email = PyNone])

\* Record.update_email
update_email(rec, new_email) ==
    Done([rec EXCEPT !.email = EmailInit(Str(new_email)).ret])

----------------------------------------------------------------------------
(* Note                                                                    *)

RECURSIVE HobbyList(_, _)
HobbyList(hobbies, n) ==
    IF n = 0 THEN <<>>
    ELSE Append(HobbyList(hobbies, n - 1), Field(Str(hobbies[n])))

\* Note.__init__(name_, project_role, project_tasks, hobbies)
NoteInit(name_, project_role, project_tasks, hobbies) ==
    Return([name          |-> Field(Str(name_)),
            project_role  |-> Field(project_role),
            project_tasks |-> Field(project_tasks),
            hobbies       |-> HobbyList(hobbies, Len(hobbies))])

----------------------------------------------------------------------------
(* The dict of a store (UserDict.data): entries in insertion order.        *)

Entry(key, value) == [key |-> key, value |-> value]

Keys(data) == { data[i].key : i \in 1..Len(data) }

\* the position of key in data; the caller has checked that it is there
IndexOf(data, key) == CHOOSE i \in 1..Len(data) : data[i].key = key

\* an assignment that never looks for the key
DictSetAppend(data, key, value) == Append(data, Entry(key, value))

\* data[key] = value: a present key keeps its place, a new key goes last
DictSet(data, key, value) ==
    IF key \in Keys(data)
    THEN [data EXCEPT ![IndexOf(data, key)].value = value]
    ELSE Append(data, Entry(key, value))

\* a removal that fills the gap with the last entry
DictDelSwap(data, key) ==
    LET i == IndexOf(data, key)
    IN  IF i = Len(data) THEN SubSeq(data, 1, Len(data) - 1)
        ELSE SubSeq([data EXCEPT ![i] = data[Len(data)]], 1, Len(data) - 1)

\* del data[key]
DictDel(data, key) == RemoveAt(data, IndexOf(data, key))

\* an operation of a store yields its dict, its result and its exception
Ok(data, ret) == [err |-> "none", data |-> data, ret |-> ret]

Err(e, data) == [err |-> e, data |-> data, ret |-> PyNone]

----------------------------------------------------------------------------
(* AddressBook                                                             *)

\* the dict comprehension over the first n objects of json_data
RECURSIVE RecordDict(_, _)
RecordDict(json_data, n) ==
    IF n = 0 THEN Return(<<>>)
    ELSE LET head == RecordDict(json_data, n - 1)
             o    == json_data[n]
         IN  IF head.err # "none" THEN head
             ELSE LET r == RecordInit(o.name_, o.phones, o.birthday, o.address, o.email)
                  IN  IF r.err # "none" THEN r
                      ELSE Return(DictSet(head.ret, o.name_, r.ret))

\* AddressBook.load_data_from_json
load_data_from_json(data, json_data) ==
    LET d == RecordDict(json_data, Len(json_data))
    IN  IF d.err # "none" THEN Err(d.err, data) ELSE Ok(d.ret, PyNone)

\* add_record without the test for the name
add_record_overwrite(data, record_) ==
    Ok(DictSet(data, record_.name.value.s, record_), record_)

\* AddressBook.add_record
add_record(data, record_) ==
    IF record_.name.value.s \notin Keys(data)
    THEN Ok(DictSet(data, record_.name.value.s, record_), record_)
    ELSE Ok(data, PyNone)

\* AddressBook.find
find(data, name_) ==
    IF name_ \notin Keys(data) THEN Err("KeyError", data)
    ELSE Ok(data, data[IndexOf(data, name_)].value)

\* delete that ignores an absent name
delete_if_present(data, name_) ==
    IF name_ \notin Keys(data) THEN Ok(data, PyNone) ELSE Ok(DictDel(data, name_), PyNone)

\* AddressBook.delete
delete(data, name_) ==
    LET f == find(data, name_)
    IN  IF f.err # "none" THEN f ELSE Ok(DictDel(data, name_), PyNone)

\* AddressBook.get_all_names
get_all_names(data) == [i \in 1..Len(data) |-> data[i].key]

----------------------------------------------------------------------------
(* NotesBook                                                               *)

RECURSIVE NoteDict(_, _)
NoteDict(json_data, n) ==
    IF n = 0 THEN <<>>
    ELSE LET o == json_data[n]
         IN  DictSet(NoteDict(json_data, n - 1), o.name_,
                     NoteInit(o.name_, o.project_role, o.project_tasks, o.hobbies).ret)

\* NotesBook.load_data_from_json
notes_load_data_from_json(data, json_data) ==
    Ok(NoteDict(json_data, Len(json_data)), PyNone)

\* NotesBook.add_note
add_note(data, note_) ==
    IF note_.name.value.s \notin Keys(data)
    THEN Ok(DictSet(data, note_.name.value.s, note_), note_)
    ELSE Ok(data, PyNone)

\* NotesBook.find
notes_find(data, name_) ==
    IF name_ \notin Keys(data) THEN Err("KeyError", data)
    ELSE Ok(data, data[IndexOf(data, name_)].value)

\* NotesBook.delete: del self.data[name_]
notes_delete(data, name_) ==
    IF name_ \notin Keys(data) THEN Err("KeyError", data)
    ELSE Ok(DictDel(data, name_), PyNone)

----------------------------------------------------------------------------
(* Inputs.                                                                 *)

Ann == <<"a", "n", "n">>

Bob == <<"b", "o", "b">>

Cat == <<"c", "a", "t">>

P1 == <<"1", "2", "3", "4", "5", "6", "7", "8", "9", "0">>

P2 == <<"5", "5", "3", "2", "4", "3", "5", "5", "5", "5">>

\* ten characters, the last one SUPERSCRIPT TWO
PU == <<"1", "2", "3", "4", "5", "6", "7", "8", "9", "U+00B2">>

\* nine digits
PShort == <<"1", "2", "3", "4", "5", "6", "7", "8", "9">>

PhoneArgs == {P1, P2, PU, PShort}

EGood == <<"a", "@", "b", ".", "c", "c">>

EBad == <<"a", "b">>

EmailArgs == {EGood, EBad}

BGood == <<"2", "0", "2", "4", ".", "0", "1", ".", "1", "0">>

BBad == <<"2", "0", "2", "3", ".", "0", "2", ".", "2", "9">>

Town == <<"t", "o", "n">>

\* how many phones a record holds, and how many a constructor call is given
MaxPhones == 3

\* how far the length of a phone argument is from PhoneLen
MaxExtra == 1

\* how many objects a loaded document holds
MaxLoad == 2

SeqsUpTo(S, n) == UNION { [1..k -> S] : k \in 0..n }

\* strings of n characters, all the digit d but for the character c at k
OneOff(n) ==
    { [i \in 1..n |-> IF i = k THEN c ELSE d] :
        k \in 1..n, c \in Chars, d \in {"1", "7"} }

PhoneInputs ==
    {<<>>, P1, P2, PU, PShort}
      \cup UNION { OneOff(n) : n \in (PhoneLen - MaxExtra)..(PhoneLen + MaxExtra) }

LocalParts ==
    { <<>>, <<"a">>, <<"a", "_", "b">>, <<".", "-">>, <<"U+00E9", "1">>,
      <<"a", "+", "b">>, <<"a", " ">> }

AtParts == { <<>>, <<"@">>, <<"@", "@">> }

DomainParts ==
    { <<>>, <<"b">>, <<"b", "_", "c">>, <<"b", "-", "1", ".", "c">>,
      <<"U+00E9">>, <<"U+0663">>, <<"U+00B2">>, <<"b", "+">> }

DotParts == { <<>>, <<".">> }

TldParts ==
    { <<>>, <<"c">>, <<"c", "c">>, <<"c", "o", "Z">>, <<"c", "1">>,
      <<"c", "_">>, <<"c", "U+00E9">> }

TailParts == { <<>>, <<LF>>, <<LF, LF>>, <<" ">> }

EmailInputs ==
    { l \o a \o d \o p \o t \o z :
        l \in LocalParts, a \in AtParts, d \in DomainParts,
        p \in DotParts, t \in TldParts, z \in TailParts }

----------------------------------------------------------------------------
(* The validators applied to arbitrary strings.                            *)

InitValidate ==
    /\ \/ \E s \in PhoneInputs :
             call = [fn |-> "validate_phone", arg |-> s, err |-> "pending", ret |-> <<>>]
       \/ \E s \in EmailInputs :
             call = [fn |-> "validate_email", arg |-> s, err |-> "pending", ret |-> <<>>]
    /\ record = RecordInit(Ann, <<>>, PyNone, PyNone, PyNone).ret
    /\ rlast = [op |-> "__init__", a1 |-> <<>>, a2 |-> <<>>,
                err |-> "none", pre |-> PyNone]
    /\ address_book = <<>>
    /\ notes_book = <<>>
    /\ blast = [store |-> "none", op |-> "__init__", name |-> <<>>, arg |-> PyNone,
                err |-> "none", ret |-> PyNone, pre |-> <<>>]
    /\ reader = IdleReader

CallValidatePhone ==
    /\ call.fn = "validate_phone"
    /\ call.err = "pending"
    /\ LET r == validate_phone(call.arg)
       IN  call' = [call EXCEPT !.err = r.err, !.ret = r.ret]
    /\ UNCHANGED <<record, rlast, address_book, notes_book, blast, reader>>

CallValidateEmail ==
    /\ call.fn = "validate_email"
    /\ call.err = "pending"
    /\ LET r == validate_email(call.arg)
       IN  call' = [call EXCEPT !.err = r.err, !.ret = r.ret]
    /\ UNCHANGED <<record, rlast, address_book, notes_book, blast, reader>>

NextValidate == CallValidatePhone \/ CallValidateEmail

SpecValidate == InitValidate /\ [][NextValidate]_vars

----------------------------------------------------------------------------
(* One Record: built by the constructor, then changed by its methods.      *)

BirthdayArgs == {PyNone, NoneStr, Str(BGood), Str(BBad)}

AddressArgs == {PyNone, Str(Town)}

EmailCtorArgs == {PyNone, Str(EGood), Str(EBad)}

\* the calls Record(name_, phones, birthday, address, email)
RecordCalls ==
    { RecordInit(Ann, ps, b, a, e) :
        ps \in SeqsUpTo(PhoneArgs, MaxPhones), b \in BirthdayArgs,
        a \in AddressArgs, e \in EmailCtorArgs }

IdleCall == [fn |-> "none", arg |-> <<>>, err |-> "none", ret |-> <<>>]

IdleBlast ==
    [store |-> "none", op |-> "__init__", name |-> <<>>, arg |-> PyNone,
     err |-> "none", ret |-> PyNone, pre |-> <<>>]

InitRecord ==
    /\ call = IdleCall
    /\ \E r \in RecordCalls : r.err = "none" /\ record = r.ret
    /\ rlast = [op |-> "__init__", a1 |-> <<>>, a2 |-> <<>>,
                err |-> "none", pre |-> PyNone]
    /\ address_book = <<>>
    /\ notes_book = <<>>
    /\ blast = IdleBlast
    /\ reader = IdleReader

\* the record after the call and what the call was
RecordStep(op, a1, a2, out) ==
    /\ record' = out.rec
    /\ rlast' = [op |-> op, a1 |-> a1, a2 |-> a2, err |-> out.err, pre |-> record]
    /\ UNCHANGED <<call, address_book, notes_book, blast, reader>>

AddPhone ==
    /\ Len(record.phones) < MaxPhones
    /\ \E p \in PhoneArgs : RecordStep("add_phone", p, <<>>, add_phone(record, p))

RemovePhone ==
    \E p \in PhoneArgs : RecordStep("remove_phone", p, <<>>, remove_phone(record, p))

EditPhone ==
    \E p \in PhoneArgs, q \in PhoneArgs :
        RecordStep("edit_phone", p, q, edit_phone(record, p, q))

AddEmail ==
    \E e \in EmailArgs : RecordStep("add_email", e, <<>>, add_email(record, e))

UpdateEmail ==
    \E e \in EmailArgs : RecordStep("update_email", e, <<>>, update_email(record, e))

RemoveEmail == RecordStep("remove_email", <<>>, <<>>, remove_email(record))

NextRecord ==
    \/ AddPhone
    \/ RemovePhone
    \/ EditPhone
    \/ AddEmail
    \/ UpdateEmail
    \/ RemoveEmail

SpecRecord == InitRecord /\ [][NextRecord]_vars

----------------------------------------------------------------------------
(* The two stores: AddressBook and NotesBook, empty when created.          *)

ContactObject(n, ps, b, a, e) ==
    [name_ |-> n, phones |-> ps, birthday |-> b, address |-> a, email |-> e]

\* objects of a contacts document
ContactObjects ==
    { ContactObject(Ann, <<P1>>, NoneStr, NoneStr, NoneStr),
      ContactObject(Ann, <<P2, P1>>, Str(BGood), Str(Town), Str(EGood)),
      ContactObject(Bob, <<P2>>, NoneStr, Str(Town), NoneStr),
      ContactObject(Cat, <<>>, Str(BGood), NoneStr, Str(EGood)) }

\* the Records a caller hands to add_record
RecordArgs ==
    { r.ret : r \in { c \in { RecordInit(o.name_, o.phones, o.birthday, o.address, o.email) :
                                 o \in ContactObjects } : c.err = "none" } }

Names == {Ann, Bob, Cat}

NoteObject(n, role, tasks, hs) ==
    [name_ |-> n, project_role |-> role, project_tasks |-> tasks, hobbies |-> hs]

Dev == Str(<<"c", "o", "t">>)

Chess == <<"b", "a", "t">>

NoteObjects ==
    { NoteObject(Ann, Dev, Str(Town), <<Chess>>),
      NoteObject(Ann, Str(Town), PyNone, <<>>),
      NoteObject(Bob, Dev, PyNone, <<Chess, Town>>) }

NoteArgs ==
    { NoteInit(o.name_, o.project_role, o.project_tasks, o.hobbies).ret : o \in NoteObjects }

NoteNames == {Ann, Bob}

Init ==
    /\ call = IdleCall
    /\ record = RecordInit(Ann, <<>>, PyNone, PyNone, PyNone).ret
    /\ rlast = [op |-> "__init__", a1 |-> <<>>, a2 |-> <<>>,
                err |-> "none", pre |-> PyNone]
    /\ address_book = <<>>
    /\ notes_book = <<>>
    /\ blast = IdleBlast
    /\ reader = IdleReader

\* the address book after the call and what the call was
BookStep(op, name, arg, out) ==
    /\ address_book' = out.data
    /\ blast' = [store |-> "address_book", op |-> op, name |-> name, arg |-> arg,
                 err |-> out.err, ret |-> out.ret, pre |-> address_book]
    /\ UNCHANGED <<call, record, rlast, notes_book, reader>>

\* the notes book after the call and what the call was
NotesStep(op, name, arg, out) ==
    /\ notes_book' = out.data
    /\ blast' = [store |-> "notes_book", op |-> op, name |-> name, arg |-> arg,
                 err |-> out.err, ret |-> out.ret, pre |-> notes_book]
    /\ UNCHANGED <<call, record, rlast, address_book, reader>>

ContactDocuments == SeqsUpTo(ContactObjects, MaxLoad)

NoteDocuments == SeqsUpTo(NoteObjects, MaxLoad)

LoadBook ==
    \E json_data \in ContactDocuments :
        BookStep("load_data_from_json", <<>>, PyNone, load_data_from_json(address_book, json_data))

AddRecord ==
    \E r \in RecordArgs :
        BookStep("add_record", r.name.value.s, r, add_record(address_book, r))

FindRecord == \E n \in Names : BookStep("find", n, PyNone, find(address_book, n))

DeleteRecord == \E n \in Names : BookStep("delete", n, PyNone, delete(address_book, n))

LoadNotes ==
    \E json_data \in NoteDocuments :
        NotesStep("load_data_from_json", <<>>, PyNone, notes_load_data_from_json(notes_book, json_data))

AddNote ==
    \E n \in NoteArgs : NotesStep("add_note", n.name.value.s, n, add_note(notes_book, n))

FindNote == \E n \in NoteNames : NotesStep("find", n, PyNone, notes_find(notes_book, n))

DeleteNote == \E n \in NoteNames : NotesStep("delete", n, PyNone, notes_delete(notes_book, n))

Next ==
    \/ LoadBook
    \/ AddRecord
    \/ FindRecord
    \/ DeleteRecord
    \/ LoadNotes
    \/ AddNote
    \/ FindNote
    \/ DeleteNote

Spec == Init /\ [][Next]_vars

----------------------------------------------------------------------------
(* Properties of the validators (SpecValidate).                            *)

\* exactly PhoneLen characters, each an ASCII digit 0-9
TenAsciiDigits(s) == Len(s) = PhoneLen /\ \A i \in 1..Len(s) : s[i] \in AsciiDigits

\* C1: phone validation returns its argument unchanged exactly when the
\* argument is 10 ASCII digits, and fails with the validation error for every
\* other string, a non-ASCII digit included.
C1_PhoneTenAsciiDigits ==
    (call.fn = "validate_phone" /\ call.err # "pending") =>
        IF TenAsciiDigits(call.arg)
        THEN call.err = "none" /\ call.ret = call.arg
        ELSE call.err = "ValueError"

\* a string the code accepts although it is not 10 ASCII digits
C1_NonAsciiAccepted ==
    /\ call.fn = "validate_phone"
    /\ call.arg = PU
    /\ call.err = "none"

\* local@domain.tld, whole string or all but one final newline, with the
\* domain drawn from domainChars
EmailShape(s, domainChars) ==
    \E n \in {Len(s), Len(s) - 1} :
        /\ n >= 1
        /\ (n < Len(s) => s[Len(s)] = LF)
        /\ \E i \in 2..n, j \in 4..n :
              /\ s[i] = "@"
              /\ s[j] = "."
              /\ j >= i + 2
              /\ n >= j + 2
              /\ \A k \in 1..(i - 1) :
                    s[k] \in AsciiLetters \cup AsciiDigits \cup NonAscii
                               \cup {"_", ".", "-"}
              /\ \A k \in (i + 1)..(j - 1) : s[k] \in domainChars
              /\ \A k \in (j + 1)..n : s[k] \in AsciiLetters

\* the domain characters of the specified pattern: [\w.-]
WordDomain == AsciiLetters \cup AsciiDigits \cup NonAscii \cup {"_", ".", "-"}

\* letters a-z and A-Z, decimal digits, dot and hyphen
PlainDomain == AsciiLetters \cup AsciiDigits \cup {"U+0663", ".", "-"}

\* C2 as stated: validation accepts exactly the strings matching
\* ^[\w.-]+@[\w.-]+\.[A-Za-z]{2,}$, a domain with an underscore included.
C2_SpecifiedPattern ==
    (call.fn = "validate_email" /\ call.err # "pending") =>
        IF EmailShape(call.arg, WordDomain)
        THEN call.err = "none" /\ call.ret = call.arg
        ELSE call.err = "ValueError"

\* C2 amended: validation accepts exactly the strings matching
\* ^[\w.-]+@[a-zA-Z\d.-]+\.[a-zA-Z]{2,}$ and returns them unchanged; the
\* domain part admits no underscore; every other string is rejected.
C2_CodePattern ==
    (call.fn = "validate_email" /\ call.err # "pending") =>
        IF EmailShape(call.arg, PlainDomain)
        THEN call.err = "none" /\ call.ret = call.arg
        ELSE call.err = "ValueError"

\* an address with an underscore in its domain has been rejected
C2_UnderscoreDomainRejected ==
    /\ call.fn = "validate_email"
    /\ call.arg = <<"a", "@", "b", "_", "c", ".", "c", "c">>
    /\ call.err = "ValueError"

----------------------------------------------------------------------------
(* Properties of a Record (SpecRecord).                                    *)

PhoneValues(rec) == [i \in 1..Len(rec.phones) |-> rec.phones[i].value.s]

Holds(rec, p) == \E i \in 1..Len(rec.phones) : rec.phones[i].value.s = p

Count(rec, p) == Cardinality({ i \in 1..Len(rec.phones) : rec.phones[i].value.s = p })

EmailAbsent(rec) == rec.email = PyNone \/ rec.email.value = PyNone

WellFormedEmail(e) == EmailShape(e, PlainDomain)

\* C3: the email of a Record is absent or a string that passed validation;
\* the constructor, add_email and update_email fail with the validation
\* error on a malformed email and keep the previous email.
C3_EmailAlwaysValidated ==
    /\ EmailAbsent(record) \/ WellFormedEmail(record.email.value.s)
    /\ (rlast.op \in {"add_email", "update_email"} /\ ~WellFormedEmail(rlast.a1)) =>
          (rlast.err = "ValueError" /\ record.email = rlast.pre.email)

\* C4: every phone of a Record is 10 ASCII digits and no two phones of the
\* list have the same value.
C4_PhonesValidAndUnique ==
    /\ \A i \in 1..Len(record.phones) : TenAsciiDigits(record.phones[i].value.s)
    /\ \A i, j \in 1..Len(record.phones) :
          i # j => record.phones[i].value # record.phones[j].value

\* C5: add_phone(p) with p already held leaves the phone list as it was and
\* does not fail; with a valid p not yet held it appends p at the end; a
\* second add_phone(p) then changes nothing.
C5_AddPhoneIdempotent ==
    rlast.op = "add_phone" =>
        /\ Holds(rlast.pre, rlast.a1) =>
              (rlast.err = "none" /\ record = rlast.pre)
        /\ (TenAsciiDigits(rlast.a1) /\ ~Holds(rlast.pre, rlast.a1)) =>
              /\ rlast.err = "none"
              /\ PhoneValues(record) = Append(PhoneValues(rlast.pre), rlast.a1)
              /\ record = [rlast.pre EXCEPT !.phones = record.phones]
        /\ rlast.err = "none" =>
              /\ add_phone(record, rlast.a1).err = "none"
              /\ add_phone(record, rlast.a1).rec = record

\* add_phone of a phone the record already held has returned
C5_DuplicateAdded ==
    /\ rlast.op = "add_phone"
    /\ rlast.a1 = P1
    /\ rlast.err = "none"
    /\ PhoneValues(rlast.pre) = <<P2, P1>>

\* the phones of rec other than p, in order
Without(rec, p) == SelectSeq(PhoneValues(rec), LAMBDA v : v # p)

\* C6: edit_phone(old, new) on a record holding both returns without error
\* and leaves the previous list with old removed, the others in order and
\* new exactly once.
C6_EditToHeldPhone ==
    (/\ rlast.op = "edit_phone"
     /\ rlast.a1 # rlast.a2
     /\ Holds(rlast.pre, rlast.a1)
     /\ Holds(rlast.pre, rlast.a2)) =>
        /\ rlast.err = "none"
        /\ PhoneValues(record) = Without(rlast.pre, rlast.a1)
        /\ Count(record, rlast.a2) = 1

\* C7: a failing edit_phone leaves the phone list unchanged; an invalid new
\* fails with the validation error (also when old is absent); a valid new
\* with old absent fails with the not-found error and new is not added.
C7_FailedEditKeepsList ==
    rlast.op = "edit_phone" =>
        /\ rlast.err # "none" => record = rlast.pre
        /\ ~TenAsciiDigits(rlast.a2) =>
              (rlast.err = "ValueError" /\ record = rlast.pre)
        /\ (TenAsciiDigits(rlast.a2) /\ ~Holds(rlast.pre, rlast.a1)) =>
              (rlast.err = "KeyError" /\ record = rlast.pre)

----------------------------------------------------------------------------
(* Properties of the stores (Spec).                                        *)

\* the dict of the store the last call was made on
Store == IF blast.store = "notes_book" THEN notes_book ELSE address_book

\* C8: after any sequence of load_data_from_json, add_record and delete,
\* every key of the Contact Store is the name of the Record stored under it
\* and no two stored Records have the same name.
C8_KeysAreNames ==
    /\ \A i \in 1..Len(address_book) :
          address_book[i].key = address_book[i].value.name.value.s
    /\ \A i, j \in 1..Len(address_book) :
          i # j => address_book[i].value.name # address_book[j].value.name

\* an add of a name the store already holds has been turned down
C8_SeveralRecords ==
    /\ blast.store = "address_book"
    /\ blast.op = "add_record"
    /\ blast.ret = PyNone
    /\ Len(address_book) = 3

\* C9: add_record(r) and add_note(n) with a name the store already holds
\* return None without raising and leave the store as it was, the Record
\* under that name included; with a new name they return the argument and
\* the store gains exactly that entry, at the end.
C9_AddOnlyNewName ==
    blast.op \in {"add_record", "add_note"} =>
        /\ blast.err = "none"
        /\ blast.name = blast.arg.name.value.s
        /\ IF blast.name \in Keys(blast.pre)
           THEN blast.ret = PyNone /\ Store = blast.pre
           ELSE blast.ret = blast.arg
                  /\ Store = Append(blast.pre, Entry(blast.name, blast.arg))

\* a Record whose name is held with other fields has been turned down
C9_DuplicateTurnedDown ==
    /\ blast.store = "address_book"
    /\ blast.op = "add_record"
    /\ blast.ret = PyNone
    /\ blast.name = Ann
    /\ Len(blast.pre) = 2
    /\ blast.pre[2].value # blast.arg

\* the entries of data whose key is not name, in order
Others(data, name) == SelectSeq(data, LAMBDA e : e.key # name)

\* C10: delete(name) on either store fails with the not-found error and
\* leaves the store as it was when name is no key; otherwise it removes that
\* entry alone, the others keep their order, and find(name) then fails with
\* the not-found error.
C10_DeleteOnlyThatEntry ==
    blast.op = "delete" =>
        IF blast.name \in Keys(blast.pre)
        THEN /\ blast.err = "none"
             /\ Store = Others(blast.pre, blast.name)
             /\ Len(Store) = Len(blast.pre) - 1
             /\ IF blast.store = "notes_book"
                THEN notes_find(notes_book, blast.name).err = "KeyError"
                ELSE find(address_book, blast.name).err = "KeyError"
        ELSE blast.err = "KeyError" /\ Store = blast.pre

\* the middle one of three Records has been deleted
C10_MiddleDeleted ==
    /\ blast.store = "address_book"
    /\ blast.op = "delete"
    /\ blast.err = "none"
    /\ Len(blast.pre) = 3
    /\ blast.pre[2].key = blast.name

----------------------------------------------------------------------------
(* Search.  A pattern is a sequence of tokens: a character, or the two-    *)
(* character text \d.  The patterns that arise here hold digits, letters,  *)
(* @, the dot, parentheses and \d.                                         *)

DigitWildcard == "\\d"

\* the longest pattern text search_phone looks for
SearchPhoneMax == 10

\* the longest all-digit query that search hands to search_by_number
NumberQueryMax == 10

\* the fuzzy pass runs for queries longer than this
FuzzyMinLen == 3

\* str.replace(char, new): every occurrence of char becomes new
Replace(query, char, new) ==
    [i \in 1..Len(query) |-> IF query[i] = char THEN new ELSE query[i]]

\* len() of the text of a pattern
TextLen(pat) ==
    Len(pat) + Cardinality({ i \in 1..Len(pat) : pat[i] = DigitWildcard })

\* nesting depth after the first n tokens; negative once a ")" had no "("
RECURSIVE Depth(_, _)
Depth(pat, n) ==
    IF n = 0 THEN 0
    ELSE LET d == Depth(pat, n - 1)
         IN  IF d < 0 THEN d
             ELSE IF pat[n] = "(" THEN d + 1
             ELSE IF pat[n] = ")" THEN d - 1
             ELSE d

\* re.compile(pat) raises re.error unless the parentheses balance
Compiles(pat) == Depth(pat, Len(pat)) = 0

IsConsuming(t) == t \notin {"(", ")"}

\* one token against one character
TokenMatches(t, c) ==
    IF t = DigitWildcard THEN ReDigit(c)
    ELSE IF t = "." THEN c # LF
    ELSE t = c

\* the pattern matches somewhere in the string s
MatchesIn(pat, s) ==
    LET p == SelectSeq(pat, IsConsuming)
    IN  \E i \in 0..(Len(s) - Len(p)) :
            \A j \in 1..Len(p) : TokenMatches(p[j], s[i + j])

\* re.search(pat, value) is not None
re_search(pat, value) ==
    IF ~Compiles(pat) THEN Raise("re.error")
    ELSE IF value.kind # "str" THEN Raise("TypeError")
    ELSE Return(MatchesIn(pat, value.s))

\* query in text, for two str
Contains(text, query) ==
    \E i \in 0..(Len(text) - Len(query)) :
        \A j \in 1..Len(query) : text[i + j] = query[j]

\* Record.search_phone: the first phone the query is found in, or None
search_phone(rec, query) ==
    IF TextLen(query) > SearchPhoneMax THEN PyNone
    ELSE LET hits == { i \in 1..Len(rec.phones) :
                         LET r == re_search(query, rec.phones[i].value)
                         IN  r.err = "none" /\ r.ret }
         IN  IF hits = {} THEN PyNone
             ELSE rec.phones[CHOOSE i \in hits : \A j \in hits : i <= j]

\* the values at the positions keep, among the first n, in dict order
RECURSIVE Pick(_, _, _)
Pick(data, keep, n) ==
    IF n = 0 THEN <<>>
    ELSE IF n \in keep THEN Append(Pick(data, keep, n - 1), data[n].value)
    ELSE Pick(data, keep, n - 1)

\* list(results) of a set of Records: the members in any order
Orders(data, keep) ==
    { [k \in 1..Cardinality(keep) |-> data[f[k]].value] :
        f \in { g \in [1..Cardinality(keep) -> keep] :
                  \A a, b \in 1..Cardinality(keep) : a # b => g[a] # g[b] } }

\* AddressBook.search_by_number: the lists the call may return
search_by_number(data, number_query) ==
    LET exact == { i \in 1..Len(data) :
                     search_phone(data[i].value, number_query) # PyNone }
        fuzzy == { i \in 1..Len(data) :
                     \E k \in 1..Len(number_query) :
                        search_phone(data[i].value,
                                     Replace(number_query, number_query[k], DigitWildcard))
                          # PyNone }
    IN  IF exact = {} /\ Len(number_query) > FuzzyMinLen
        THEN { Return(l) : l \in Orders(data, fuzzy) }
        ELSE { Return(Pick(data, exact, Len(data))) }

\* query in record.name.value or query in record.email.value
NameOrEmailContains(rec, query) ==
    IF Contains(rec.name.value.s, query) THEN Return(TRUE)
    ELSE IF rec.email = PyNone THEN Raise("AttributeError")
    ELSE IF rec.email.value.kind # "str" THEN Raise("TypeError")
    ELSE Return(Contains(rec.email.value.s, query))

\* re.search(pat, record.name.value) or re.search(pat, record.email.value)
NameOrEmailMatches(rec, pat) ==
    LET n == re_search(pat, rec.name.value)
    IN  IF n.err # "none" THEN n
        ELSE IF n.ret THEN n
        ELSE IF rec.email = PyNone THEN Raise("AttributeError")
        ELSE re_search(pat, rec.email.value)

\* AddressBook.search_by_name_or_email: the outcomes the call may have
search_by_name_or_email(data, query) ==
    LET test(i) == NameOrEmailContains(data[i].value, query)
        failed == { i \in 1..Len(data) : test(i).err # "none" }
        exact == { i \in 1..Len(data) : test(i).err = "none" /\ test(i).ret }
        try(k, i) == NameOrEmailMatches(data[i].value, Replace(query, query[k], "."))
        steps == (1..Len(query)) \X (1..Len(data))
        broken == { s \in steps : try(s[1], s[2]).err # "none" }
        fuzzy == { i \in 1..Len(data) :
                     \E k \in 1..Len(query) :
                        try(k, i).err = "none" /\ try(k, i).ret }
    IN  IF failed # {}
        THEN { Raise(test(CHOOSE i \in failed : \A j \in failed : i <= j).err) }
        ELSE IF exact # {} \/ Len(query) <= FuzzyMinLen
        THEN { Return(Pick(data, exact, Len(data))) }
        ELSE IF ~Compiles(query) THEN { Return(<<>>) }
        ELSE IF broken # {}
        THEN LET first == CHOOSE s \in broken :
                             \A r \in broken :
                                s[1] < r[1] \/ (s[1] = r[1] /\ s[2] <= r[2])
             IN  { Raise(try(first[1], first[2]).err) }
        ELSE { Return(l) : l \in Orders(data, fuzzy) }

\* a search that sends digits to the names and text to the phones
search_swapped(data, query) ==
    IF Len(query) <= NumberQueryMax /\ \A i \in 1..Len(query) : IsDigit(query[i])
    THEN search_by_name_or_email(data, query)
    ELSE search_by_number(data, query)

\* AddressBook.search
search(data, query) ==
    IF Len(query) <= NumberQueryMax /\ \A i \in 1..Len(query) : IsDigit(query[i])
    THEN search_by_number(data, query)
    ELSE search_by_name_or_email(data, query)

----------------------------------------------------------------------------
(* An address book that is filled, has emails removed and is searched.     *)

\* how many Records the searched address book holds
MaxRecords == 2

\* the Records handed to add_record before a search
SearchRecordArgs ==
    { RecordInit(Ann, <<P1>>, PyNone, PyNone, PyNone).ret,
      RecordInit(Ann, <<P1>>, PyNone, PyNone, Str(EGood)).ret,
      RecordInit(Bob, <<P2>>, PyNone, PyNone, PyNone).ret,
      RecordInit(Bob, <<P2>>, PyNone, PyNone, Str(EGood)).ret,
      RecordInit(Cat, <<>>, PyNone, PyNone, Str(EGood)).ret }

\* the lengths of the queries cut out of a phone
NearLens == {4, 10}

\* the digit typed by mistake
Mistyped == "9"

\* n characters of phone from offset o, with Mistyped at position k
NearMiss(phone, n, o, k) ==
    [i \in 1..n |-> IF i = k THEN Mistyped ELSE phone[o + i]]

NearMisses(phone) ==
    UNION { UNION { { NearMiss(phone, n, o, k) : k \in 1..n } :
                      o \in 0..(Len(phone) - n) } :
              n \in NearLens }

DigitQueries ==
    NearMisses(P1)
      \cup { <<>>, <<"1", "2", "3">>, <<"1", "2", "9">>, <<"1", "2", "1", "1">>,
             <<"5", "5", "3", "2">>, <<"1", "2", "U+0663", "4">>,
             <<"1", "2", "3", "4", "5", "6", "7", "8", "9", "0", "1">> }

TextQueries ==
    { <<"a", "n">>, <<"a", "n", "n">>, <<"a", "n", "x">>, <<"a", "n", "n", "x">>,
      <<"b", "o", "b">>, <<"b", ".", "c">>, <<"a", "@", "b", ".", "c", "x">>,
      <<"(", "a", "n", "n", ")">>, <<"a", "n", "n", ")">>, <<"a", "x", "n", "1">> }

SearchQueries == DigitQueries \cup TextQueries

InitSearch ==
    /\ call = IdleCall
    /\ record = RecordInit(Ann, <<>>, PyNone, PyNone, PyNone).ret
    /\ rlast = [op |-> "__init__", a1 |-> <<>>, a2 |-> <<>>,
                err |-> "none", pre |-> PyNone]
    /\ address_book = <<>>
    /\ notes_book = <<>>
    /\ blast = IdleBlast
    /\ reader = IdleReader

SearchAddRecord ==
    /\ Len(address_book) < MaxRecords
    /\ \E r \in SearchRecordArgs :
          BookStep("add_record", r.name.value.s, r, add_record(address_book, r))

\* book.find(name).remove_email()
SearchRemoveEmail ==
    \E i \in 1..Len(address_book) :
        BookStep("remove_email", address_book[i].key, PyNone,
                 Ok([address_book EXCEPT ![i].value = remove_email(@).rec], PyNone))

Search ==
    \E query \in SearchQueries :
        \E out \in search(address_book, query) :
            BookStep("search", <<>>, Str(query),
                     [err |-> out.err, data |-> address_book, ret |-> out.ret])

NextSearch == SearchAddRecord \/ SearchRemoveEmail \/ Search

SpecSearch == InitSearch /\ [][NextSearch]_vars

----------------------------------------------------------------------------
(* Properties of search (SpecSearch).                                      *)

\* the query of the search call just made
Query == blast.arg.s

\* search takes the query for a number
IsNumberQuery(q) == Len(q) <= NumberQueryMax /\ \A i \in 1..Len(q) : IsDigit(q[i])

PhoneTexts(rec) == { rec.phones[i].value.s : i \in 1..Len(rec.phones) }

\* text holds a string of the query's length that differs from the query
\* in a number of positions drawn from diffs
HoldsWithin(text, q, diffs) ==
    \E o \in 0..(Len(text) - Len(q)) :
        Cardinality({ j \in 1..Len(q) : text[o + j] # q[j] }) \in diffs

\* no phone of the store contains the query
NoPhoneContains(data, q) ==
    \A i \in 1..Len(data) : \A t \in PhoneTexts(data[i].value) : ~Contains(t, q)

Returned == { blast.ret[i] : i \in 1..Len(blast.ret) }

\* C11: for a digit query of length 4 to 10 that no phone of the store
\* contains, search returns every Record with a phone containing a string
\* that differs from the query in exactly one position.
C11_OneMistypedDigitFound ==
    ( /\ blast.op = "search"
      /\ IsNumberQuery(Query)
      /\ Len(Query) > FuzzyMinLen
      /\ NoPhoneContains(blast.pre, Query) ) =>
        \A i \in 1..Len(blast.pre) :
            (\E t \in PhoneTexts(blast.pre[i].value) : HoldsWithin(t, Query, {1})) =>
                blast.err = "none" /\ blast.pre[i].value \in Returned

\* the ten-digit query with its last digit mistyped finds nothing
C11_TenDigitsNotFound ==
    /\ blast.op = "search"
    /\ Query = NearMiss(P1, PhoneLen, 0, PhoneLen)
    /\ \E i \in 1..Len(blast.pre) : P1 \in PhoneTexts(blast.pre[i].value)
    /\ blast.err = "none"
    /\ blast.ret = <<>>

\* C12: every Record that the fuzzy pass returns for a digit query has a
\* phone containing a string of the query's length that differs from the
\* query in at most one position.
C12_FuzzyWithinOnePosition ==
    ( /\ blast.op = "search"
      /\ blast.err = "none"
      /\ IsNumberQuery(Query)
      /\ Len(Query) > FuzzyMinLen
      /\ NoPhoneContains(blast.pre, Query) ) =>
        \A r \in Returned : \E t \in PhoneTexts(r) : HoldsWithin(t, Query, {0, 1})

\* query 1211 returns the Record of phone 5532435555
C12_FarPhoneReturned ==
    /\ blast.op = "search"
    /\ Query = <<"1", "2", "1", "1">>
    /\ blast.err = "none"
    /\ \E r \in Returned : PhoneTexts(r) = {P2}

\* C13: search returns a list and never raises.
C13_SearchNeverRaises == blast.op = "search" => blast.err = "none"

\* a text query against a Record created without an email raises
C13_NoEmailRaises ==
    /\ blast.op = "search"
    /\ blast.err = "TypeError"
    /\ \E i \in 1..Len(blast.pre) : blast.pre[i].value.email = Field(PyNone)

\* a text query against a Record whose email was removed raises
C13_RemovedEmailRaises ==
    /\ blast.op = "search"
    /\ blast.err = "AttributeError"
    /\ \E i \in 1..Len(blast.pre) : blast.pre[i].value.email = PyNone

\* a query with balanced parentheses raises in the fuzzy pass
C13_ParenthesesRaise ==
    /\ blast.op = "search"
    /\ blast.err = "re.error"
    /\ Compiles(Query)

\* the Record has an email that is a text
HasEmailText(rec) == rec.email # PyNone /\ rec.email.value.kind = "str"

\* the exact pass as specified: a phone containing the digit query, or a
\* name or email containing the query
ExactMatch(rec, q) ==
    IF IsNumberQuery(q)
    THEN \E t \in PhoneTexts(rec) : Contains(t, q)
    ELSE \/ Contains(rec.name.value.s, q)
         \/ HasEmailText(rec) /\ Contains(rec.email.value.s, q)

ExactMatches(data, q) == { i \in 1..Len(data) : ExactMatch(data[i].value, q) }

\* C14: for a query of length 3 or less, and for any query whose exact pass
\* matches a Record, search returns exactly the Records of the exact pass in
\* store order.
C14_ExactPassOnly ==
    ( /\ blast.op = "search"
      /\ Len(Query) <= FuzzyMinLen \/ ExactMatches(blast.pre, Query) # {} ) =>
        /\ blast.err = "none"
        /\ blast.ret = Pick(blast.pre, ExactMatches(blast.pre, Query), Len(blast.pre))

\* a short text query that matches nothing raises instead of returning the
\* empty list
C14_ShortQueryRaises ==
    /\ blast.op = "search"
    /\ Len(Query) <= FuzzyMinLen
    /\ ExactMatches(blast.pre, Query) = {}
    /\ blast.err # "none"

----------------------------------------------------------------------------
(* Birthdays in the coming days (datetime.date arithmetic).                *)

\* days before 1 January of year y, as date.toordinal counts them
DaysBeforeYear(y) ==
    (y - 1) * 365 + (y - 1) \div 4 - (y - 1) \div 100 + (y - 1) \div 400

RECURSIVE DaysBeforeMonth(_, _)
DaysBeforeMonth(y, m) ==
    IF m = 1 THEN 0 ELSE DaysBeforeMonth(y, m - 1) + DaysInMonth(y, m - 1)

\* date.toordinal()
toordinal(date) == DaysBeforeYear(date.y) + DaysBeforeMonth(date.y, date.m) + date.d

\* date.weekday(): Monday is 0
weekday(date) == (toordinal(date) + 6) % 7

\* date.replace(year=y)
replace_year(date, y) ==
    IF date.d > DaysInMonth(y, date.m) THEN Raise("ValueError")
    ELSE Return(Date(y, date.m, date.d))

\* strftime("%d %b (%A)"): day of month, month name, weekday name
Label(date) == [d |-> date.d, b |-> date.m, A |-> weekday(date)]

\* the birthday moved to this year, or to the next if it has passed;
\* None for a Record that is skipped
Projected(rec, today) ==
    IF rec.birthday = PyNone THEN Raise("AttributeError")
    ELSE IF rec.birthday.value = PyNone \/ rec.birthday.value = NoneStr
    THEN Return(PyNone)
    ELSE LET this == replace_year(rec.birthday.value, today.y)
         IN  IF this.err # "none" THEN this
             ELSE IF toordinal(today) > toordinal(this.ret)
             THEN replace_year(this.ret, today.y + 1)
             ELSE this

\* an append that opens a new key every time
DictAppendNew(result, key, rec) == Append(result, Entry(key, <<rec>>))

\* result[key].append(rec) on a defaultdict(list)
DictAppend(result, key, rec) ==
    IF key \in Keys(result)
    THEN [result EXCEPT ![IndexOf(result, key)].value = Append(@, rec)]
    ELSE Append(result, Entry(key, <<rec>>))

\* the loop of get_birthdays_per_days over the first n Records
RECURSIVE BirthdaysLoop(_, _, _, _)
BirthdaysLoop(users_data, n, today, days) ==
    IF n = 0 THEN Return(<<>>)
    ELSE LET head == BirthdaysLoop(users_data, n - 1, today, days)
         IN  IF head.err # "none" THEN head
             ELSE LET p == Projected(users_data[n], today)
                  IN  IF p.err # "none" THEN p
                      ELSE IF p.ret = PyNone THEN head
                      ELSE IF toordinal(p.ret) - toordinal(today) < days
                      THEN Return(DictAppend(head.ret, Label(p.ret), users_data[n]))
                      ELSE head

\* list(self.data.values())
Values(data) == [i \in 1..Len(data) |-> data[i].value]

\* AddressBook.get_birthdays_per_days(days), called on the date today
get_birthdays_per_days(data, today, days) ==
    BirthdaysLoop(Values(data), Len(data), today, days)

\* Record.remove_birthday
remove_birthday(rec) == Done([rec EXCEPT !.birthday = PyNone])

----------------------------------------------------------------------------
(* An address book whose birthdays are listed for the coming days.         *)

BLeap == <<"2", "0", "0", "0", ".", "0", "2", ".", "2", "9">>

BJan5 == <<"1", "9", "9", "0", ".", "0", "1", ".", "0", "5">>

BDec31 == <<"1", "9", "9", "9", ".", "1", "2", ".", "3", "1">>

\* the Records handed to add_record before birthdays are listed
BirthdayRecordArgs ==
    { RecordInit(Ann, <<P1>>, PyNone, PyNone, PyNone).ret,
      RecordInit(Ann, <<P1>>, Str(BGood), PyNone, PyNone).ret,
      RecordInit(Ann, <<P1>>, Str(BLeap), PyNone, PyNone).ret,
      RecordInit(Bob, <<P2>>, Str(BJan5), PyNone, PyNone).ret,
      RecordInit(Bob, <<P2>>, Str(BGood), PyNone, PyNone).ret,
      RecordInit(Cat, <<>>, NoneStr, PyNone, PyNone).ret,
      RecordInit(Cat, <<>>, Str(BDec31), PyNone, PyNone).ret }

\* the dates on which the birthdays are listed
Todays ==
    { Date(2024, 1, 5), Date(2023, 12, 31), Date(2024, 3, 1), Date(2023, 1, 10) }

\* the numbers of days asked for
DaysArgs == {-1, 0, 1, 5, 6, 7, 11, 366}

InitBirthdays ==
    /\ call = IdleCall
    /\ record = RecordInit(Ann, <<>>, PyNone, PyNone, PyNone).ret
    /\ rlast = [op |-> "__init__", a1 |-> <<>>, a2 |-> <<>>,
                err |-> "none", pre |-> PyNone]
    /\ address_book = <<>>
    /\ notes_book = <<>>
    /\ blast = IdleBlast
    /\ reader = IdleReader

BirthdaysAddRecord ==
    /\ Len(address_book) < MaxRecords
    /\ \E r \in BirthdayRecordArgs :
          BookStep("add_record", r.name.value.s, r, add_record(address_book, r))

\* book.find(name).remove_birthday()
BirthdaysRemoveBirthday ==
    \E i \in 1..Len(address_book) :
        BookStep("remove_birthday", address_book[i].key, PyNone,
                 Ok([address_book EXCEPT ![i].value = remove_birthday(@).rec], PyNone))

Birthdays ==
    \E today \in Todays, days \in DaysArgs :
        LET out == get_birthdays_per_days(address_book, today, days)
        IN  BookStep("get_birthdays_per_days", <<>>, [today |-> today, days |-> days],
                     [err |-> out.err, data |-> address_book, ret |-> out.ret])

NextBirthdays == BirthdaysAddRecord \/ BirthdaysRemoveBirthday \/ Birthdays

SpecBirthdays == InitBirthdays /\ [][NextBirthdays]_vars

----------------------------------------------------------------------------
(* Properties of get_birthdays_per_days (SpecBirthdays).                   *)

\* the Record has a birthday
HasBirthday(rec) == rec.birthday # PyNone /\ rec.birthday.value.kind = "date"

\* how many years ahead the next occurrence of a birthday is looked for
LeapCycle == 8

\* the first day on or after today that has the month and day of birthday
NextOccurrence(birthday, today) ==
    LET years == { y \in today.y..(today.y + LeapCycle) :
                     /\ birthday.d <= DaysInMonth(y, birthday.m)
                     /\ toordinal(Date(y, birthday.m, birthday.d)) >= toordinal(today) }
        y == CHOOSE x \in years : \A z \in years : x <= z
    IN  Date(y, birthday.m, birthday.d)

DaysUntil(birthday, today) == toordinal(NextOccurrence(birthday, today)) - toordinal(today)

\* the Records listed under some label of the result
Listed == UNION { { e.value[i] : i \in 1..Len(e.value) } :
                    e \in { blast.ret[k] : k \in 1..Len(blast.ret) } }

\* C15: get_birthdays_per_days(days) includes a Record exactly when it has
\* a birthday whose next occurrence on or after today is fewer than days
\* days away.
C15_WithinDaysListed ==
    blast.op = "get_birthdays_per_days" =>
        /\ blast.err = "none"
        /\ \A i \in 1..Len(blast.pre) :
              LET rec == blast.pre[i].value
              IN  rec \in Listed <=>
                    /\ HasBirthday(rec)
                    /\ DaysUntil(rec.birthday.value, blast.arg.today) < blast.arg.days

\* a birthday of 29 February makes the call fail
C15_LeapDayFails ==
    /\ blast.op = "get_birthdays_per_days"
    /\ blast.err = "ValueError"
    /\ \E i \in 1..Len(blast.pre) :
          /\ HasBirthday(blast.pre[i].value)
          /\ blast.pre[i].value.birthday.value.m = 2
          /\ blast.pre[i].value.birthday.value.d = 29

----------------------------------------------------------------------------
(* Saving: the text of each field and the documents the stores dump.       *)

DigitChar(n) == CHOOSE c \in AsciiDigits : DigitVal(c) = n

\* the decimal digits of n, without padding
RECURSIVE Decimal(_)
Decimal(n) ==
    IF n < 10 THEN <<DigitChar(n)>>
    ELSE Append(Decimal(n \div 10), DigitChar(n % 10))

TwoDigits(n) == <<DigitChar(n \div 10), DigitChar(n % 10)>>

\* date.strftime("%Y.%m.%d"); the C library writes %Y without padding
strftime(date) ==
    Decimal(date.y) \o <<".">> \o TwoDigits(date.m) \o <<".">> \o TwoDigits(date.d)

\* str(x) for x a Field or None: Field.__str__ is str(self.value)
FieldText(x) ==
    IF x = PyNone THEN NoneStr
    ELSE IF x.value = PyNone THEN NoneStr
    ELSE x.value

\* str(x) for x a Birthday or None: Birthday.__str__
BirthdayText(x) ==
    IF x = PyNone THEN NoneStr
    ELSE IF x.value \in {PyNone, NoneStr, Str(<<>>)} THEN NoneStr
    ELSE Str(strftime(x.value))

\* AddressBook.dump_data_to_json
dump_data_to_json(data) ==
    [i \in 1..Len(data) |->
        LET r == data[i].value
        IN  ContactObject(r.name.value.s,
                          [j \in 1..Len(r.phones) |-> r.phones[j].value.s],
                          BirthdayText(r.birthday),
                          FieldText(r.address),
                          FieldText(r.email))]

\* NotesBook.dump_data_to_json
notes_dump_data_to_json(data) ==
    [i \in 1..Len(data) |->
        LET n == data[i].value
        IN  NoteObject(n.name.value.s,
                       FieldText(n.project_role),
                       FieldText(n.project_tasks),
                       [j \in 1..Len(n.hobbies) |-> n.hobbies[j].value.s])]

----------------------------------------------------------------------------
(* BookReader: loading on entry, saving on exit.                           *)

\* open(path, "r") and json.load
read_json(file) ==
    CASE file.kind = "missing" -> Raise("FileNotFoundError")
      [] file.kind = "text"    -> Raise("JSONDecodeError")
      [] file.kind = "bytes"   -> Raise("UnicodeDecodeError")
      [] OTHER                 -> Return(file.doc)

\* the exceptions the loaders of source/reader.py catch
ReaderCaught == {"FileNotFoundError", "JSONDecodeError"}

\* the exceptions the loaders of datamodels.py catch
MonolithCaught == {"FileNotFoundError"}

\* the try block of a loader: the document, or the empty list after a
\* caught exception
read_or_empty(file, caught) ==
    LET r == read_json(file)
    IN  IF r.err = "none" \/ r.err \notin caught THEN r ELSE Return(<<>>)

\* BookReader.load_existing_notes
load_existing_notes(file, data, caught) ==
    LET d == read_or_empty(file, caught)
    IN  IF d.err # "none" THEN Err(d.err, data)
        ELSE notes_load_data_from_json(data, d.ret)

\* BookReader.load_existing_users
load_existing_users(file, data, caught) ==
    LET d == read_or_empty(file, caught)
    IN  IF d.err # "none" THEN Err(d.err, data)
        ELSE load_data_from_json(data, d.ret)

\* BookReader.__enter__: the two stores and the exception raised
enter(rdr, caught) ==
    LET n == load_existing_notes(rdr.notes, <<>>, caught)
        u == load_existing_users(rdr.users, <<>>, caught)
    IN  IF n.err # "none"
        THEN [err |-> n.err, notes_book |-> n.data, address_book |-> <<>>]
        ELSE [err |-> u.err, notes_book |-> n.data, address_book |-> u.data]

\* BookReader.save_existing_notes
save_existing_notes(rdr, notes) ==
    [rdr EXCEPT !.notes = Json(notes_dump_data_to_json(notes)),
                !.notes_writes = @ + 1]

\* BookReader.save_existing_users
save_existing_users(rdr, users) ==
    [rdr EXCEPT !.users = Json(dump_data_to_json(users)),
                !.users_writes = @ + 1]

\* an exit that saves the contacts only
exit_users_only(rdr, notes, users) == save_existing_users(rdr, users)

\* BookReader.__exit__
exit(rdr, notes, users) ==
    save_existing_users(save_existing_notes(rdr, notes), users)

----------------------------------------------------------------------------
(* Sessions of the program: enter the scope, run commands, leave.          *)

\* how many times the program is started
MaxSessions == 2

B999 == <<"0", "9", "9", "9", ".", "0", "1", ".", "0", "2">>

\* the Records handed to add_record by the add command
ReaderRecordArgs ==
    { RecordInit(Ann, <<P1>>, PyNone, PyNone, PyNone).ret,
      RecordInit(Bob, <<P2, P1>>, Str(BGood), Str(Town), Str(EGood)).ret,
      RecordInit(Cat, <<>>, Str(B999), PyNone, Str(EGood)).ret }

ReaderNoteArgs == { NoteInit(Ann, Dev, Str(Town), <<Chess>>).ret }

\* the contacts file found at the first start
UsersFiles ==
    { Missing, Garbage, Undecodable,
      Json(<<ContactObject(Ann, <<P1>>, NoneStr, NoneStr, NoneStr)>>),
      Json(<<ContactObject(Ann, <<PShort>>, NoneStr, NoneStr, NoneStr)>>) }

\* the notes file found at the first start
NotesFiles ==
    { Missing, Garbage, Undecodable,
      Json(<<NoteObject(Bob, Dev, PyNone, <<Chess, Town>>)>>) }

InitReader ==
    /\ call = IdleCall
    /\ record = RecordInit(Ann, <<>>, PyNone, PyNone, PyNone).ret
    /\ rlast = [op |-> "__init__", a1 |-> <<>>, a2 |-> <<>>,
                err |-> "none", pre |-> PyNone]
    /\ address_book = <<>>
    /\ notes_book = <<>>
    /\ blast = IdleBlast
    /\ \E u \in UsersFiles, n \in NotesFiles :
          reader = [IdleReader EXCEPT !.users = u, !.notes = n]

\* what the reader and the stores were before a step of the scope
Before == [reader |-> reader, address_book |-> address_book, notes_book |-> notes_book]

\* the program starts: with BookReader() as book
EnterWith(op, caught) ==
    /\ reader.pc = "out"
    /\ reader.sessions < MaxSessions
    /\ \E out \in {enter(reader, caught)} :
          /\ address_book' = out.address_book
          /\ notes_book' = out.notes_book
          /\ reader' = [reader EXCEPT !.pc = IF out.err = "none" THEN "in" ELSE "failed",
                                      !.users_writes = 0, !.notes_writes = 0]
          /\ blast' = [store |-> "reader", op |-> op, name |-> <<>>, arg |-> PyNone,
                       err |-> out.err, ret |-> PyNone, pre |-> Before]
    /\ UNCHANGED <<call, record, rlast>>

\* the BookReader of source/reader.py
Enter == EnterWith("__enter__", ReaderCaught)

\* the BookReader of datamodels.py
EnterMonolith == EnterWith("__enter__ (datamodels.py)", MonolithCaught)

ReaderAddRecord ==
    /\ reader.pc = "in"
    /\ Len(address_book) < MaxRecords
    /\ \E r \in ReaderRecordArgs :
          BookStep("add_record", r.name.value.s, r, add_record(address_book, r))

ReaderRemoveEmail ==
    /\ reader.pc = "in"
    /\ \E i \in 1..Len(address_book) :
          BookStep("remove_email", address_book[i].key, PyNone,
                   Ok([address_book EXCEPT ![i].value = remove_email(@).rec], PyNone))

ReaderAddNote ==
    /\ reader.pc = "in"
    /\ \E n \in ReaderNoteArgs :
          NotesStep("add_note", n.name.value.s, n, add_note(notes_book, n))

\* the scope is left, by the path given: __exit__ runs
LeaveBy(path) ==
    /\ reader.pc = "in"
    /\ reader' = [exit(reader, notes_book, address_book) EXCEPT
                    !.pc = "out", !.sessions = @ + 1]
    /\ blast' = [store |-> "reader", op |-> "__exit__", name |-> <<>>, arg |-> path,
                 err |-> "none", ret |-> PyNone, pre |-> Before]
    /\ UNCHANGED <<call, record, rlast, address_book, notes_book>>

\* the close or exit command: CliHelperSigStop breaks the loop
Close == LeaveBy("close")

\* an exception leaves main
Crash == LeaveBy("exception")

NextReader ==
    \/ Enter
    \/ EnterMonolith
    \/ ReaderAddRecord
    \/ ReaderRemoveEmail
    \/ ReaderAddNote
    \/ Close
    \/ Crash

SpecReader == InitReader /\ [][NextReader]_vars

----------------------------------------------------------------------------
(* Properties of saving and loading (SpecReader).                          *)

EnterOps == {"__enter__", "__enter__ (datamodels.py)"}

Absent == [kind |-> "absent"]

\* the value of an address or email, Absent when there is none
ValueOf(f) ==
    IF f = PyNone THEN Absent
    ELSE IF f.value = PyNone THEN Absent
    ELSE f.value

\* the date of a birthday, Absent when there is none
BirthdayOf(f) ==
    IF f = PyNone THEN Absent
    ELSE IF f.value \in {PyNone, NoneStr} THEN Absent
    ELSE f.value

SameRecord(a, b) ==
    /\ a.name = b.name
    /\ a.phones = b.phones
    /\ BirthdayOf(a.birthday) = BirthdayOf(b.birthday)
    /\ ValueOf(a.address) = ValueOf(b.address)
    /\ ValueOf(a.email) = ValueOf(b.email)

SameStore(a, b) ==
    /\ Len(a) = Len(b)
    /\ \A i \in 1..Len(a) : a[i].key = b[i].key /\ SameRecord(a[i].value, b[i].value)

\* C16: loading the document that the last exit saved does not fail and
\* gives back the store that was saved: same names in the same order, same
\* phones, birthday, address and email, an absent field still absent.
C16_SaveLoadRoundTrip ==
    (blast.op \in EnterOps /\ blast.pre.reader.sessions > 0) =>
        /\ blast.err = "none"
        /\ SameStore(address_book, blast.pre.address_book)

\* a Record saved without an email is loaded with the text None as email
C16_AbsentEmailBecomesText ==
    /\ blast.op \in EnterOps
    /\ blast.pre.reader.sessions > 0
    /\ blast.err = "none"
    /\ \E i \in 1..Len(address_book) :
          /\ ValueOf(blast.pre.address_book[i].value.email) = Absent
          /\ address_book[i].value.email = Field(NoneStr)

\* C17: at startup a file that is missing or is not valid JSON gives an
\* empty store and no error, and a missing or corrupt notes file does not
\* keep the contacts from loading.
C17_BadFileGivesEmptyStore ==
    blast.op \in EnterOps =>
        LET f == blast.pre.reader
        IN  /\ f.notes.kind # "json" => notes_book = <<>>
            /\ f.users.kind # "json" => address_book = <<>> /\ blast.err = "none"
            /\ (f.notes.kind # "json" /\ f.users.kind = "json") =>
                  LET l == load_data_from_json(<<>>, f.users.doc)
                  IN  blast.err = l.err /\ address_book = l.data

\* a contacts file that is not valid JSON stops the start
C17_CorruptFileStopsStart ==
    /\ blast.op \in EnterOps
    /\ blast.pre.reader.users = Garbage
    /\ blast.pre.reader.notes = Missing
    /\ blast.err = "JSONDecodeError"
    /\ reader.pc = "failed"

\* C18: leaving the scope writes the notes file and the contacts file once
\* each, with the content of its store at that moment, and nothing is
\* written while commands run.
C18_BothSavedOnceOnExit ==
    /\ blast.op = "__exit__" =>
          /\ reader.notes = Json(notes_dump_data_to_json(blast.pre.notes_book))
          /\ reader.users = Json(dump_data_to_json(blast.pre.address_book))
          /\ reader.notes_writes = 1
          /\ reader.users_writes = 1
    /\ reader.pc = "in" => reader.notes_writes = 0 /\ reader.users_writes = 0

\* the scope is left by an exception with both stores filled
C18_LeftByException ==
    /\ blast.op = "__exit__"
    /\ blast.arg = "exception"
    /\ Len(blast.pre.address_book) > 0
    /\ Len(blast.pre.notes_book) > 0
    /\ reader.users # blast.pre.reader.users

----------------------------------------------------------------------------
(* The birthday of one Record: add_birthday, update_birthday,              *)
(* remove_birthday.                                                        *)

\* Record.add_birthday
add_birthday(rec, birthday_str) ==
    LET b == BirthdayInit(Str(birthday_str))
    IN  IF b.err # "none" THEN Fail(b.err, rec)
        ELSE Done([rec EXCEPT !.birthday = b.ret])

\* Record.update_birthday: the date that validate_date returns is handed
\* to Birthday, which validates it once more
update_birthday(rec, new_birthday) ==
    LET validated_date == validate_date(Str(new_birthday))
    IN  IF validated_date.err # "none" THEN Fail(validated_date.err, rec)
        ELSE LET b == BirthdayInit(validated_date.ret)
             IN  IF b.err # "none" THEN Fail(b.err, rec)
                 ELSE Done([rec EXCEPT !.birthday = b.ret])

BShort == <<"2", "0", "2", "4", ".", "1", ".", "5">>

BirthdayStrings == {BGood, BBad, BLeap, BJan5, BShort, NoneStr.s, Town, <<>>}

InitBirthdayField ==
    /\ call = IdleCall
    /\ \E b \in {PyNone, NoneStr, Str(BGood), Str(BDec31)} :
          record = RecordInit(Ann, <<P1>>, b, PyNone, PyNone).ret
    /\ rlast = [op |-> "__init__", a1 |-> <<>>, a2 |-> <<>>,
                err |-> "none", pre |-> PyNone]
    /\ address_book = <<>>
    /\ notes_book = <<>>
    /\ blast = IdleBlast
    /\ reader = IdleReader

AddBirthday ==
    \E s \in BirthdayStrings : RecordStep("add_birthday", s, <<>>, add_birthday(record, s))

UpdateBirthday ==
    \E s \in BirthdayStrings :
        RecordStep("update_birthday", s, <<>>, update_birthday(record, s))

RemoveBirthday == RecordStep("remove_birthday", <<>>, <<>>, remove_birthday(record))

NextBirthdayField == AddBirthday \/ UpdateBirthday \/ RemoveBirthday

SpecBirthdayField == InitBirthdayField /\ [][NextBirthdayField]_vars

\* C19: update_birthday(s) with s a date in YYYY.MM.DD succeeds and leaves
\* that date as the birthday, as add_birthday(s) does; with a malformed s it
\* fails with the validation error and keeps the record as it was.
C19_UpdateBirthdayReplaces ==
    rlast.op = "update_birthday" =>
        LET v == validate_date(Str(rlast.a1))
        IN  IF v.err = "none"
            THEN /\ rlast.err = "none"
                 /\ record.birthday = Field(v.ret)
                 /\ record = add_birthday(rlast.pre, rlast.a1).rec
            ELSE /\ rlast.err = "ValueError"
                 /\ record = rlast.pre

\* update_birthday with a well-formed date fails and changes nothing
C19_ValidUpdateFails ==
    /\ rlast.op = "update_birthday"
    /\ rlast.a1 = BGood
    /\ rlast.err = "ValueError"
    /\ record = rlast.pre

----------------------------------------------------------------------------
(* The hobbies of one Note: find_hobby, add_hobby, remove_hobby,           *)
(* edit_hobby.                                                             *)

\* str.casefold() of one character
FoldChar(c) ==
    CASE c = "B" -> <<"b">>
      [] c = "N" -> <<"n">>
      [] c = "Z" -> <<"z">>
      [] c = "E" -> <<"e">>
      [] c = "X" -> <<"x">>
      [] c = "I" -> <<"i">>
      [] c = "T" -> <<"t">>
      [] c = "U+00DF" -> <<"s", "s">>
      [] OTHER -> <<c>>

\* str.casefold()
RECURSIVE casefold(_)
casefold(s) ==
    IF s = <<>> THEN <<>>
    ELSE casefold(SubSeq(s, 1, Len(s) - 1)) \o FoldChar(s[Len(s)])

\* the two modules that define Note
NoteModules == {"datamodels/note_book.py", "datamodels.py"}

\* what find_hobby compares: datamodels/note_book.py folds the case,
\* datamodels.py compares the values as they are
HobbyKey(module, s) == IF module = "datamodels.py" THEN s ELSE casefold(s)

\* Note.find_hobby: the index of the first hobby that compares equal, 0
\* for KeyError
find_hobby(module, note, hobby) ==
    LET hits == { i \in 1..Len(note.hobbies) :
                    HobbyKey(module, note.hobbies[i].value.s) = HobbyKey(module, hobby) }
    IN  IF hits = {} THEN 0 ELSE CHOOSE i \in hits : \A j \in hits : i <= j

\* Note.add_hobby
add_hobby(module, note, hobby) ==
    IF find_hobby(module, note, hobby) # 0 THEN Done(note)
    ELSE Done([note EXCEPT !.hobbies = Append(@, Field(Str(hobby)))])

\* Note.remove_hobby
remove_hobby(module, note, hobby) ==
    LET i == find_hobby(module, note, hobby)
    IN  IF i = 0 THEN Fail("KeyError", note)
        ELSE Done([note EXCEPT !.hobbies = RemoveAt(@, i)])

\* an edit that puts the new hobby where the old one was
edit_hobby_in_place(module, note, hobby, new_hobby) ==
    LET i == find_hobby(module, note, hobby)
    IN  IF i = 0 THEN Fail("KeyError", note)
        ELSE Done([note EXCEPT !.hobbies[i] = Field(Str(new_hobby))])

\* Note.edit_hobby
edit_hobby(module, note, hobby, new_hobby) ==
    LET r == remove_hobby(module, note, hobby)
    IN  IF r.err # "none" THEN r
        ELSE add_hobby(module, r.rec, new_hobby)

\* how many hobbies a Note holds, and how many its constructor is given
MaxHobbies == 3

BatCapital == <<"B", "a", "t">>

HobbyArgs == {Chess, BatCapital, Town}

\* the module the Note comes from is call.fn; the Note is record
InitNote ==
    /\ \E module \in NoteModules : call = [IdleCall EXCEPT !.fn = module]
    /\ \E hs \in SeqsUpTo(HobbyArgs, MaxHobbies) :
          record = NoteInit(Ann, Dev, PyNone, hs).ret
    /\ rlast = [op |-> "__init__", a1 |-> <<>>, a2 |-> <<>>,
                err |-> "none", pre |-> PyNone]
    /\ address_book = <<>>
    /\ notes_book = <<>>
    /\ blast = IdleBlast
    /\ reader = IdleReader

AddHobby ==
    /\ Len(record.hobbies) < MaxHobbies
    /\ \E h \in HobbyArgs : RecordStep("add_hobby", h, <<>>, add_hobby(call.fn, record, h))

RemoveHobby ==
    \E h \in HobbyArgs : RecordStep("remove_hobby", h, <<>>, remove_hobby(call.fn, record, h))

EditHobby ==
    \E h \in HobbyArgs, n \in HobbyArgs :
        RecordStep("edit_hobby", h, n, edit_hobby(call.fn, record, h, n))

NextNote == AddHobby \/ RemoveHobby \/ EditHobby

SpecNote == InitNote /\ [][NextNote]_vars

\* the hobbies of the Note as texts
HobbyTexts(note) == [i \in 1..Len(note.hobbies) |-> note.hobbies[i].value.s]

\* no two hobbies equal ignoring case
UniqueHobbies(note) ==
    \A i, j \in 1..Len(note.hobbies) :
        i # j => casefold(note.hobbies[i].value.s) # casefold(note.hobbies[j].value.s)

\* hobby is in the list, ignoring case
HasHobby(note, hobby) ==
    \E i \in 1..Len(note.hobbies) : casefold(note.hobbies[i].value.s) = casefold(hobby)

\* C20: in every reachable state of a Note no two hobbies are equal
\* ignoring case, and add_hobby of a hobby that is present ignoring case
\* leaves the list unchanged and does not fail.
C20_HobbiesUniqueIgnoringCase ==
    /\ UniqueHobbies(record)
    /\ (rlast.op = "add_hobby" /\ HasHobby(rlast.pre, rlast.a1)) =>
          rlast.err = "none" /\ record.hobbies = rlast.pre.hobbies

\* the constructor was given the same hobby twice and kept both
C20_ConstructorKeepsDuplicate ==
    /\ rlast.op = "__init__"
    /\ Len(record.hobbies) = 2
    /\ record.hobbies[1] = record.hobbies[2]

----------------------------------------------------------------------------
(* NotesBook.find_hobby and NotesBook.find_project_role.                   *)

\* a Python list returned to the caller
PyList(items) == [kind |-> "list", items |-> items]

\* NotesBook.find_hobby: datamodels/note_book.py returns the filtered list,
\* datamodels.py collects the Notes and returns nothing
notes_find_hobby(module, data, hobby_) ==
    LET hits == { i \in 1..Len(data) :
                    \E j \in 1..Len(data[i].value.hobbies) :
                        HobbyKey(module, data[i].value.hobbies[j].value.s)
                          = HobbyKey(module, hobby_) }
    IN  IF hits = {} THEN Err("KeyError", data)
        ELSE IF module = "datamodels.py" THEN Ok(data, PyNone)
        ELSE Ok(data, PyList(Pick(data, hits, Len(data))))

\* NotesBook.find_project_role
notes_find_project_role(module, data, project_role_) ==
    LET hits == { i \in 1..Len(data) :
                    data[i].value.project_role.value = Str(project_role_) }
    IN  IF hits = {} THEN Err("KeyError", data)
        ELSE IF module = "datamodels.py" THEN Ok(data, PyNone)
        ELSE Ok(data, PyList(Pick(data, hits, Len(data))))

\* how many Notes the searched notes book holds
MaxNotes == 2

\* the Notes handed to add_note before a look-up
FindNoteArgs ==
    { NoteInit(Ann, Dev, PyNone, <<Chess>>).ret,
      NoteInit(Ann, Str(Town), PyNone, <<>>).ret,
      NoteInit(Bob, Dev, PyNone, <<BatCapital, Town>>).ret,
      NoteInit(Cat, PyNone, PyNone, <<Chess, BatCapital>>).ret }

\* the module the NotesBook comes from is call.fn
InitNotesFind ==
    /\ \E module \in NoteModules : call = [IdleCall EXCEPT !.fn = module]
    /\ record = RecordInit(Ann, <<>>, PyNone, PyNone, PyNone).ret
    /\ rlast = [op |-> "__init__", a1 |-> <<>>, a2 |-> <<>>,
                err |-> "none", pre |-> PyNone]
    /\ address_book = <<>>
    /\ notes_book = <<>>
    /\ blast = IdleBlast
    /\ reader = IdleReader

NotesFindAddNote ==
    /\ Len(notes_book) < MaxNotes
    /\ \E n \in FindNoteArgs :
          NotesStep("add_note", n.name.value.s, n, add_note(notes_book, n))

FindHobby ==
    \E h \in HobbyArgs :
        NotesStep("find_hobby", <<>>, Str(h), notes_find_hobby(call.fn, notes_book, h))

FindProjectRole ==
    \E r \in {Dev.s, Town, Chess} :
        NotesStep("find_project_role", <<>>, Str(r),
                  notes_find_project_role(call.fn, notes_book, r))

NextNotesFind == NotesFindAddNote \/ FindHobby \/ FindProjectRole

SpecNotesFind == InitNotesFind /\ [][NextNotesFind]_vars

\* the Notes of data that the look-up op must return for the text wanted
Wanted(data, op, wanted) ==
    { i \in 1..Len(data) :
        IF op = "find_hobby" THEN HasHobby(data[i].value, wanted)
        ELSE data[i].value.project_role.value = Str(wanted) }

\* C21: find_hobby(h) returns exactly the Notes with a hobby equal to h
\* ignoring case, find_project_role(r) exactly the Notes whose role is r,
\* each Note once and in store order; each fails with KeyError when no
\* Note matches; the store is not changed.
C21_FindReturnsMatchingNotes ==
    blast.op \in {"find_hobby", "find_project_role"} =>
        LET want == Wanted(blast.pre, blast.op, blast.arg.s)
        IN  /\ notes_book = blast.pre
            /\ IF want = {} THEN blast.err = "KeyError"
               ELSE /\ blast.err = "none"
                    /\ blast.ret = PyList(Pick(blast.pre, want, Len(blast.pre)))

\* the look-up of datamodels.py finds a Note and returns nothing
C21_NothingReturned ==
    /\ blast.op = "find_hobby"
    /\ call.fn = "datamodels.py"
    /\ Wanted(blast.pre, blast.op, blast.arg.s) # {}
    /\ blast.err = "none"
    /\ blast.ret = PyNone

----------------------------------------------------------------------------
(* The order of the address book under load, add_record and delete.        *)

InitOrder ==
    /\ call = IdleCall
    /\ record = RecordInit(Ann, <<>>, PyNone, PyNone, PyNone).ret
    /\ rlast = [op |-> "__init__", a1 |-> <<>>, a2 |-> <<>>,
                err |-> "none", pre |-> PyNone]
    /\ address_book = <<>>
    /\ notes_book = <<>>
    /\ blast = IdleBlast
    /\ reader = IdleReader

OrderLoad ==
    \E json_data \in ContactDocuments :
        BookStep("load_data_from_json", <<>>, json_data,
                 load_data_from_json(address_book, json_data))

OrderAddRecord ==
    \E r \in RecordArgs :
        BookStep("add_record", r.name.value.s, r, add_record(address_book, r))

OrderDelete == \E n \in Names : BookStep("delete", n, PyNone, delete(address_book, n))

NextOrder == OrderLoad \/ OrderAddRecord \/ OrderDelete

SpecOrder == InitOrder /\ [][NextOrder]_vars

\* the names of the first n objects of a document, each at its first place
RECURSIVE FirstPlaces(_, _)
FirstPlaces(json_data, n) ==
    IF n = 0 THEN <<>>
    ELSE LET head == FirstPlaces(json_data, n - 1)
         IN  IF \E i \in 1..Len(head) : head[i] = json_data[n].name_
             THEN head
             ELSE Append(head, json_data[n].name_)

\* the names with name taken out, the others in the order they had
NamesWithout(names, name) ==
    LET keep(x) == x # name
    IN  SelectSeq(names, keep)

\* C22: iterating the address book yields the names in the order of the
\* last load, then the later successful adds in the order made, deleted
\* names removed: a load gives the order of the document, a successful add
\* puts the name last, a rejected add and a failed delete move nothing, a
\* delete takes out that name only.
C22_InsertionOrder ==
    LET now == get_all_names(address_book)
        was == get_all_names(blast.pre)
    IN  /\ (blast.op = "load_data_from_json" /\ blast.err = "none") =>
              now = FirstPlaces(blast.arg, Len(blast.arg))
        /\ blast.op = "add_record" =>
              IF blast.name \in Keys(blast.pre) THEN address_book = blast.pre
              ELSE now = Append(was, blast.name)
        /\ blast.op = "delete" =>
              IF blast.name \in Keys(blast.pre) THEN now = NamesWithout(was, blast.name)
              ELSE address_book = blast.pre

\* a name that was deleted from the front and added again is listed last
C22_ReaddedListedLast ==
    /\ blast.op = "add_record"
    /\ Len(address_book) = 3
    /\ blast.name \notin Keys(blast.pre)
    /\ address_book[3].key = Ann
    /\ address_book[1].key = Bob

----------------------------------------------------------------------------
(* Which fields a query is compared with: Records whose names and emails   *)
(* hold digits.                                                             *)

\* a name made of digits
N123 == <<"1", "2", "3">>

\* an email that starts with digits
E77 == <<"7", "7", "@", "b", ".", "c", "c">>

RoutingRecordArgs ==
    { RecordInit(N123, <<P2>>, PyNone, PyNone, Str(EGood)).ret,
      RecordInit(Ann, <<P1>>, PyNone, PyNone, Str(EGood)).ret,
      RecordInit(Bob, <<P2>>, PyNone, PyNone, Str(E77)).ret }

RoutingAddRecord ==
    /\ Len(address_book) < MaxRecords
    /\ \E r \in RoutingRecordArgs :
          BookStep("add_record", r.name.value.s, r, add_record(address_book, r))

\* digit queries and text queries, some held by a name, an email or a phone
RoutingQueries ==
    { <<>>, N123, <<"7", "7">>, <<"1", "2", "3", "4">>, <<"1", "2", "3", "9">>,
      <<"5", "5", "3", "2">>, <<"1", "2", "U+0663", "4">>, <<"U+00B2">>,
      <<"1", "2", "3", "4", "5", "6", "7", "8", "9", "0">>,
      <<"1", "2", "3", "4", "5", "6", "7", "8", "9", "0", "1">>,
      <<"1", "2", "3", "x">>, <<"a", "n">>, <<"a", "n", "n", "x">>, <<"b", "o", "b">>,
      <<"7", "7", "@", "b">>, <<"7", "x", "@", "b">>, <<"(", "a", "n", "n", ")">> }

Route ==
    \E query \in RoutingQueries :
        \E out \in search(address_book, query) :
            BookStep("search", <<>>, Str(query),
                     [err |-> out.err, data |-> address_book, ret |-> out.ret])

NextRouting == RoutingAddRecord \/ Route

SpecRouting == InitSearch /\ [][NextRouting]_vars

\* text contains the query, or matches the query with every occurrence of
\* one of its characters replaced by the wildcard
Near(text, q, wildcard) ==
    \/ Contains(text, q)
    \/ \E k \in 1..Len(q) :
         /\ Compiles(Replace(q, q[k], wildcard))
         /\ MatchesIn(Replace(q, q[k], wildcard), text)

PhoneHits(data, q) ==
    { data[i].value : i \in { j \in 1..Len(data) :
                                \E t \in PhoneTexts(data[j].value) : Contains(t, q) } }

\* C23: a query of at most 10 characters, all digits (the empty query too),
\* is compared with phones only: it returns a list, every returned Record
\* has a phone near the query, and when some phone contains the query (or
\* the query is too short for the second pass) exactly the Records with such
\* a phone are returned, so a Record that holds the query only in its name
\* or email is not; every other query is compared with names and emails
\* only: every Record it returns has a name or an email near the query.
C23_QueryRouting ==
    blast.op = "search" =>
      IF IsNumberQuery(Query)
      THEN /\ blast.err = "none"
           /\ \A r \in Returned : \E t \in PhoneTexts(r) : Near(t, Query, DigitWildcard)
           /\ (PhoneHits(blast.pre, Query) # {} \/ Len(Query) <= FuzzyMinLen) =>
                 Returned = PhoneHits(blast.pre, Query)
      ELSE blast.err = "none" =>
             \A r \in Returned :
                \/ Near(r.name.value.s, Query, ".")
                \/ Near(r.email.value.s, Query, ".")

\* a digit query held by a name and by another Record's phone: only the
\* Record with the phone is returned
C23_DigitNameNotReturned ==
    /\ blast.op = "search"
    /\ Query = N123
    /\ \E i \in 1..Len(blast.pre) :
          /\ blast.pre[i].key = N123
          /\ blast.pre[i].value \notin Returned
    /\ Returned # {}

----------------------------------------------------------------------------
(* The shape of the result of get_birthdays_per_days (SpecBirthdays).      *)

\* the places of the result: label number and position under the label
Slots == { s \in (1..MaxRecords) \X (1..MaxRecords) :
             s[1] <= Len(blast.ret) /\ s[2] <= Len(blast.ret[s[1]].value) }

RecordAt(s) == blast.ret[s[1]].value[s[2]]

\* the place of a Record in the store the call was made on
StorePlace(rec) == CHOOSE i \in 1..Len(blast.pre) : blast.pre[i].value = rec

ProjectedDate(rec) == Projected(rec, blast.arg.today).ret

\* C24: in the result of get_birthdays_per_days every included Record is a
\* Record of the store and appears exactly once, under the label of its
\* projected date; two Records are under the same label exactly when their
\* projected dates are equal; Records under a label keep store order and
\* labels are in order of first appearance.
C24_OnceUnderItsLabel ==
    (blast.op = "get_birthdays_per_days" /\ blast.err = "none") =>
        /\ \A l \in 1..Len(blast.ret) : Len(blast.ret[l].value) >= 1
        /\ \A s \in Slots :
              /\ \E i \in 1..Len(blast.pre) : blast.pre[i].value = RecordAt(s)
              /\ HasBirthday(RecordAt(s))
              /\ blast.ret[s[1]].key = Label(ProjectedDate(RecordAt(s)))
        /\ \A s, t \in Slots :
              /\ RecordAt(s) = RecordAt(t) => s = t
              /\ s[1] = t[1] <=> ProjectedDate(RecordAt(s)) = ProjectedDate(RecordAt(t))
              /\ (s[1] = t[1] /\ s[2] < t[2]) =>
                    StorePlace(RecordAt(s)) < StorePlace(RecordAt(t))
              /\ s[1] < t[1] =>
                    StorePlace(blast.ret[s[1]].value[1]) < StorePlace(blast.ret[t[1]].value[1])

\* two Records with the same day and month are listed under one label
C24_TwoUnderOneLabel ==
    /\ blast.op = "get_birthdays_per_days"
    /\ blast.err = "none"
    /\ Len(blast.ret) = 1
    /\ Len(blast.ret[1].value) = 2

----------------------------------------------------------------------------
(* get_birthdays_per_days on leap days and on removed birthdays.            *)

\* every Record of the store has the birthday attribute its constructor or
\* add_birthday gave it
BirthdaysValidated(data) ==
    \A i \in 1..Len(data) : data[i].value.birthday # PyNone

IsLeapDay(rec) ==
    HasBirthday(rec) /\ rec.birthday.value.m = 2 /\ rec.birthday.value.d = 29

\* C25: get_birthdays_per_days(days) returns a mapping without failing for
\* every store whose birthdays all passed validation and for every current
\* date, a birthday of 29 February included.
C25_ReturnsForValidatedBirthdays ==
    ( /\ blast.op = "get_birthdays_per_days"
      /\ BirthdaysValidated(blast.pre) ) =>
        blast.err = "none"

\* in a year that is not a leap year a birthday of 29 February is rejected
\* by date.replace
C25_LeapDayInCommonYear ==
    /\ blast.op = "get_birthdays_per_days"
    /\ BirthdaysValidated(blast.pre)
    /\ ~IsLeap(blast.arg.today.y)
    /\ \E i \in 1..Len(blast.pre) : IsLeapDay(blast.pre[i].value)
    /\ blast.err = "ValueError"

\* the birthday of a Record created without one
NoBirthday == RecordInit(Ann, <<>>, PyNone, PyNone, PyNone).ret.birthday

RemovedIn(data) == { i \in 1..Len(data) : data[i].value.birthday = PyNone }

\* C26: remove_birthday leaves the Record as one created without a
\* birthday: the attribute equals that of such a Record, a later
\* get_birthdays_per_days returns normally and skips the Record, and the
\* birthday is shown and saved as the text None.
C26_RemovedLikeNeverSet ==
    /\ blast.op = "remove_birthday" =>
          \A i \in 1..Len(address_book) :
              address_book[i].key = blast.name =>
                 /\ address_book[i].value.birthday = NoBirthday
                 /\ BirthdayText(address_book[i].value.birthday) = NoneStr
    /\ ( /\ blast.op = "get_birthdays_per_days"
         /\ RemovedIn(blast.pre) # {}
         /\ \A i \in 1..Len(blast.pre) : ~IsLeapDay(blast.pre[i].value) ) =>
          /\ blast.err = "none"
          /\ \A i \in RemovedIn(blast.pre) : blast.pre[i].value \notin Listed

\* listing the birthdays of a store with a removed birthday fails
C26_RemovedBirthdayRaises ==
    /\ blast.op = "get_birthdays_per_days"
    /\ RemovedIn(blast.pre) # {}
    /\ blast.err = "AttributeError"

----------------------------------------------------------------------------
(* Record.__str__: the line a Record is shown as.                          *)

ContactNameText == <<"C", "o", "n", "t", "a", "c", "t", " ", "n", "a", "m", "e", ":", " ">>

ContactEmailText ==
    <<",", " ", "c", "o", "n", "t", "a", "c", "t", " ", "e", "m", "a", "i", "l", ":", " ">>

PhonesText == <<",", " ", "p", "h", "o", "n", "e", "s", ":", " ">>

\* "; ".join of the values of the first n phones
RECURSIVE JoinPhones(_, _)
JoinPhones(phones, n) ==
    IF n = 0 THEN <<>>
    ELSE IF n = 1 THEN phones[1].value.s
    ELSE JoinPhones(phones, n - 1) \o <<";", " ">> \o phones[n].value.s

\* Record.__str__: self.email.value is read from the attribute, which is
\* None after remove_email; a value of None is formatted as the text None
record_str(rec) ==
    IF rec.email = PyNone THEN Raise("AttributeError")
    ELSE Return(ContactNameText \o FieldText(rec.name).s
                  \o ContactEmailText \o FieldText(rec.email).s
                  \o PhonesText \o JoinPhones(rec.phones, Len(rec.phones)))

\* the Records that are rendered
RenderRecordArgs ==
    { RecordInit(Ann, <<>>, PyNone, PyNone, PyNone).ret,
      RecordInit(Ann, <<P1>>, PyNone, PyNone, Str(EGood)).ret,
      RecordInit(Bob, <<P2, P1>>, PyNone, PyNone, PyNone).ret,
      RecordInit(Cat, <<P1, P2>>, Str(BGood), Str(Town), Str(EGood)).ret }

InitRender ==
    /\ call = IdleCall
    /\ record \in RenderRecordArgs
    /\ rlast = [op |-> "__init__", a1 |-> <<>>, a2 |-> <<>>,
                err |-> "none", pre |-> PyNone]
    /\ address_book = <<>>
    /\ notes_book = <<>>
    /\ blast = IdleBlast
    /\ reader = IdleReader

\* str(record)
Render ==
    \E out \in {record_str(record)} :
        /\ call' = [fn |-> "__str__", arg |-> <<>>, err |-> out.err, ret |-> out.ret]
        /\ rlast' = [op |-> "__str__", a1 |-> <<>>, a2 |-> <<>>,
                     err |-> out.err, pre |-> record]
        /\ UNCHANGED <<record, address_book, notes_book, blast, reader>>

NextRender == AddEmail \/ UpdateEmail \/ RemoveEmail \/ RemovePhone \/ Render

SpecRender == InitRender /\ [][NextRender]_vars

\* the email a Record holds, as text; nothing when it holds none
EmailShown(rec) ==
    IF rec.email # PyNone /\ rec.email.value.kind = "str" THEN rec.email.value.s
    ELSE NoneStr.s

\* C27: rendering a Record as text succeeds in every reachable Record
\* state, also for a Record that never had an email and after
\* remove_email, and gives the name, the email if any (None otherwise) and
\* the phones joined by semicolons.
C27_RenderSucceeds ==
    rlast.op = "__str__" =>
        /\ rlast.err = "none"
        /\ call.ret = ContactNameText \o record.name.value.s
                        \o ContactEmailText \o EmailShown(record)
                        \o PhonesText \o JoinPhones(record.phones, Len(record.phones))

\* a Record whose email was removed cannot be rendered
C27_RemovedEmailNotRendered ==
    /\ rlast.op = "__str__"
    /\ record.email = PyNone
    /\ rlast.err = "AttributeError"

----------------------------------------------------------------------------
(* Loading documents with malformed objects.                                *)

\* a well-formed object, and objects with a phone of nine digits, a birthday
\* that is no date, and a phone whose last character is SUPERSCRIPT TWO
OddObjects ==
    { ContactObject(Ann, <<P1>>, Str(BGood), NoneStr, NoneStr),
      ContactObject(Bob, <<P1, PShort>>, NoneStr, NoneStr, NoneStr),
      ContactObject(Cat, <<>>, Str(Town), NoneStr, NoneStr),
      ContactObject(Bob, <<PU>>, NoneStr, NoneStr, NoneStr) }

OddDocuments == SeqsUpTo(OddObjects, MaxLoad)

LoadOdd ==
    \E json_data \in OddDocuments :
        BookStep("load_data_from_json", <<>>, json_data,
                 load_data_from_json(address_book, json_data))

NextLoad == LoadOdd \/ OrderDelete

SpecLoad == InitOrder /\ [][NextLoad]_vars

\* a date written as four digits, two digits and two digits between dots
WrittenAsDate(s) ==
    /\ Len(s) = 10
    /\ \A i \in 1..10 : IF i \in {5, 8} THEN s[i] = "." ELSE s[i] \in AsciiDigits

\* the object carries a phone that is not ten ASCII digits, or a birthday
\* that is neither the text None nor written as a date
Malformed(o) ==
    \/ \E i \in 1..Len(o.phones) : ~TenAsciiDigits(o.phones[i])
    \/ o.birthday # NoneStr /\ ~WrittenAsDate(o.birthday.s)

\* the object the constructor turns down
TurnedDown(o) == RecordInit(o.name_, o.phones, o.birthday, o.address, o.email).err # "none"

\* the Record of the last object of the document that carries the name
LastRecordOf(json_data, name) ==
    LET last == CHOOSE i \in 1..Len(json_data) :
                   /\ json_data[i].name_ = name
                   /\ \A j \in 1..Len(json_data) : json_data[j].name_ = name => j <= i
        o == json_data[last]
    IN  RecordInit(o.name_, o.phones, o.birthday, o.address, o.email).ret

\* C28: load_data_from_json is all-or-nothing and replaces: when no object
\* is malformed the store holds exactly the Records of the document,
\* whatever it held before; when an object carries a malformed phone or
\* birthday the load fails with ValueError, the error of the constructor,
\* and the store keeps its content.
C28_LoadAllOrNothing ==
    blast.op = "load_data_from_json" =>
        IF \E i \in 1..Len(blast.arg) : Malformed(blast.arg[i])
        THEN /\ blast.err = "ValueError"
             /\ address_book = blast.pre
        ELSE /\ blast.err = "none"
             /\ get_all_names(address_book) = FirstPlaces(blast.arg, Len(blast.arg))
             /\ \A i \in 1..Len(address_book) :
                   address_book[i].value = LastRecordOf(blast.arg, address_book[i].key)

\* a document with a phone that is not ten ASCII digits is loaded over a
\* store that held Records
C28_MalformedPhoneLoaded ==
    /\ blast.op = "load_data_from_json"
    /\ blast.err = "none"
    /\ blast.pre # <<>>
    /\ \E i \in 1..Len(blast.arg) : Malformed(blast.arg[i])

----------------------------------------------------------------------------
(* edit_hobby of datamodels/note_book.py (SpecNote).                       *)

\* the place of the first hobby equal to hobby ignoring case, 0 for none
FirstHeld(texts, hobby) ==
    LET held == { i \in 1..Len(texts) : casefold(texts[i]) = casefold(hobby) }
    IN  IF held = {} THEN 0 ELSE CHOOSE i \in held : \A j \in held : i <= j

\* texts without its k-th entry
TextsWithout(texts, k) ==
    [i \in 1..(Len(texts) - 1) |-> IF i < k THEN texts[i] ELSE texts[i + 1]]

\* C29: edit_hobby(old, new) fails with KeyError and leaves the hobbies
\* unchanged when old is not present ignoring case; otherwise old is taken
\* out, and new is appended at the end unless it equals, ignoring case,
\* another hobby of the list, in which case nothing is added.
C29_EditRemovesThenAdds ==
    (rlast.op = "edit_hobby" /\ call.fn = "datamodels/note_book.py") =>
        LET before == HobbyTexts(rlast.pre)
            k == FirstHeld(before, rlast.a1)
        IN  IF k = 0
            THEN rlast.err = "KeyError" /\ record = rlast.pre
            ELSE /\ rlast.err = "none"
                 /\ HobbyTexts(record) =
                       IF FirstHeld(TextsWithout(before, k), rlast.a2) # 0
                       THEN TextsWithout(before, k)
                       ELSE Append(TextsWithout(before, k), rlast.a2)

\* only the letter case of the first of two hobbies is changed: the
\* hobby moves to the end
C29_CaseChangedMovesLast ==
    /\ rlast.op = "edit_hobby"
    /\ call.fn = "datamodels/note_book.py"
    /\ Len(rlast.pre.hobbies) = 2
    /\ rlast.a1 # rlast.a2
    /\ casefold(rlast.a1) = casefold(rlast.a2)
    /\ FirstHeld(HobbyTexts(rlast.pre), rlast.a1) = 1
    /\ HobbyTexts(record) = <<HobbyTexts(rlast.pre)[2], rlast.a2>>

----------------------------------------------------------------------------
(* The command loop of cli_bot.py: a line is split into words, the first   *)
(* word picks the handler, the handler works on the address book.          *)

CmdClose == <<"c", "l", "o", "s", "e">>

CmdExit == <<"e", "x", "i", "t">>

CmdExitUpper == <<"E", "X", "I", "T">>

CmdHello == <<"h", "e", "l", "l", "o">>

CmdAdd == <<"a", "d", "d">>

CmdChange == <<"c", "h", "a", "n", "g", "e">>

CmdPhone == <<"p", "h", "o", "n", "e">>

CmdSearch == <<"s", "e", "a", "r", "c", "h">>

CmdAll == <<"a", "l", "l">>

CmdAddBirthday ==
    <<"a", "d", "d", "-", "b", "i", "r", "t", "h", "d", "a", "y">>

CmdShowBirthday ==
    <<"s", "h", "o", "w", "-", "b", "i", "r", "t", "h", "d", "a", "y">>

CmdBirthdays == <<"b", "i", "r", "t", "h", "d", "a", "y", "s">>

CmdAddAddress == <<"a", "d", "d", "-", "a", "d", "d", "r", "e", "s", "s">>

CmdAddEmail == <<"a", "d", "d", "-", "e", "m", "a", "i", "l">>

CmdRemove == <<"r", "e", "m", "o", "v", "e">>

\* str.split(): the words of a line, separated by runs of spaces
RECURSIVE split(_)
split(line) ==
    IF line = <<>> THEN <<>>
    ELSE IF Head(line) = " " THEN split(Tail(line))
    ELSE LET ends == { i \in 1..Len(line) : line[i] = " " }
             n == IF ends = {} THEN Len(line) + 1
                  ELSE CHOOSE i \in ends : \A j \in ends : i <= j
         IN  <<SubSeq(line, 1, n - 1)>> \o split(SubSeq(line, n + 1, Len(line)))

\* CliHelperBot.parse_input: unpacking an empty list of words raises
\* ValueError
parse_input(user_input) ==
    LET words == split(user_input)
    IN  IF words = <<>> THEN Raise("ValueError")
        ELSE LET command == casefold(Head(words))
             IN  Return([command |-> command,
                         args |-> IF command \in {CmdClose, CmdExit}
                                  THEN <<"Good buy!">>
                                  ELSE Tail(words)])

\* the decorator input_error: three kinds of exception become the text
\* error_msg_base, what the handler did to the address book stays done
input_error(error_msg_base, out) ==
    IF out.err \in {"CommandOperationalError", "CommandNotSupported", "ValueError"}
    THEN Ok(out.data, error_msg_base)
    ELSE out

\* CliHelperBot.stop
stop(data) == Err("CliHelperSigStop", data)

\* CliHelperBot.say_hello
say_hello(data, args) == Ok(data, "How can I help you?")

\* the exception of the first str(record) that fails, "none" for none
StrAll(records) ==
    LET failed == { i \in 1..Len(records) : record_str(records[i]).err # "none" }
    IN  IF failed = {} THEN "none"
        ELSE record_str(records[CHOOSE i \in failed : \A j \in failed : i <= j]).err

\* CliHelperBot.add_contact
add_contact(data, args) ==
    input_error("Command 'add' failed",
        IF Len(args) # 2 THEN Err("CommandOperationalError", data)
        ELSE LET r == RecordInit(args[1], <<args[2]>>, PyNone, PyNone, PyNone)
             IN  IF r.err # "none" THEN Err(r.err, data)
                 ELSE IF add_record(data, r.ret).ret = PyNone
                 THEN Err("CommandOperationalError", data)
                 ELSE Ok(add_record(data, r.ret).data, "Contact created"))

\* CliHelperBot.change_contact: record.phones[0] raises IndexError for a
\* Record without phones
change_contact(data, args) ==
    input_error("Command 'update' failed",
        IF Len(args) # 2 THEN Err("CommandOperationalError", data)
        ELSE IF find(data, args[1]).err # "none" THEN Err("CommandOperationalError", data)
        ELSE LET rec == find(data, args[1]).ret
             IN  IF rec.phones = <<>> THEN Err("IndexError", data)
                 ELSE LET e == edit_phone(rec, rec.phones[1].value.s, args[2])
                      IN  IF e.err # "none" THEN Err(e.err, DictSet(data, args[1], e.rec))
                          ELSE Ok(DictSet(data, args[1], e.rec), "Contact updated"))

\* CliHelperBot.get_contact
get_contact(data, args) ==
    input_error("Command 'phone' failed",
        IF Len(args) # 1 THEN Err("CommandOperationalError", data)
        ELSE IF find(data, args[1]).err # "none" THEN Err("CommandOperationalError", data)
        ELSE IF StrAll(<<find(data, args[1]).ret>>) # "none"
        THEN Err(StrAll(<<find(data, args[1]).ret>>), data)
        ELSE Ok(data, "Record found"))

\* CliHelperBot.search_contact: the outcomes the call may have
search_contact(data, args) ==
    IF Len(args) # 1
    THEN { input_error("Command 'search' failed", Err("CommandOperationalError", data)) }
    ELSE { input_error("Command 'search' failed",
               IF records.err # "none" THEN Err(records.err, data)
               ELSE IF records.ret = <<>> THEN Ok(data, "No records found")
               ELSE IF StrAll(records.ret) # "none" THEN Err(StrAll(records.ret), data)
               ELSE Ok(data, "Found Records")) :
           records \in search(data, args[1]) }

\* the number written by a string of decimal digits
RECURSIVE NumberOf(_)
NumberOf(s) ==
    IF s = <<>> THEN 0
    ELSE NumberOf(SubSeq(s, 1, Len(s) - 1)) * 10 + DigitVal(s[Len(s)])

\* int(s) for a str: an optional sign and decimal digits
int(s) ==
    LET digits == IF s # <<>> /\ Head(s) \in {"-", "+"} THEN Tail(s) ELSE s
    IN  IF digits = <<>> \/ \E i \in 1..Len(digits) : ~ReDigit(digits[i])
        THEN Raise("ValueError")
        ELSE Return(IF Head(s) = "-" THEN 0 - NumberOf(digits) ELSE NumberOf(digits))

\* the Records under the labels of a result of get_birthdays_per_days
RECURSIVE AllListed(_)
AllListed(result) ==
    IF result = <<>> THEN <<>>
    ELSE result[1].value \o AllListed(Tail(result))

\* CliHelperBot.birthdays, called on the date today
birthdays(data, args, today) ==
    input_error("Command 'birthdays' failed",
        IF Len(args) # 1 THEN Err("CommandOperationalError", data)
        ELSE IF int(args[1]).err # "none" THEN Err(int(args[1]).err, data)
        ELSE LET results == get_birthdays_per_days(data, today, int(args[1]).ret)
             IN  IF results.err # "none" THEN Err(results.err, data)
                 ELSE IF results.ret = <<>> THEN Ok(data, "No contacts found")
                 ELSE IF StrAll(AllListed(results.ret)) # "none"
                 THEN Err(StrAll(AllListed(results.ret)), data)
                 ELSE Ok(data, "Contacts per day"))

\* CliHelperBot.print_all_contacts
print_all_contacts(data, args) ==
    IF StrAll(Values(data)) # "none" THEN Err(StrAll(Values(data)), data)
    ELSE Ok(data, "All Records")

\* CliHelperBot.show_birthday
show_birthday(data, args) ==
    input_error("Command 'show-birthday' failed",
        IF Len(args) # 1 THEN Err("CommandOperationalError", data)
        ELSE IF find(data, args[1]).err # "none" THEN Err("CommandOperationalError", data)
        ELSE IF BirthdayText(find(data, args[1]).ret.birthday) = NoneStr
        THEN Ok(data, "User's birthday is: None")
        ELSE Ok(data, "User's birthday is"))

\* Record.add_address
add_address(rec, address_str) ==
    Done([rec EXCEPT !.address = AddressInit(Str(address_str)).ret])

\* CliHelperBot.add_birthday, add_address and add_email: two arguments, the
\* Record is looked up and the method of the Record is called
cli_add_field(command, data, args) ==
    input_error(IF command = CmdAddBirthday THEN "Command 'add-birthday' failed"
                ELSE IF command = CmdAddAddress THEN "Command 'add-address' failed"
                ELSE "Command 'add-email' failed",
        IF Len(args) # 2 THEN Err("CommandOperationalError", data)
        ELSE IF find(data, args[1]).err # "none" THEN Err("CommandOperationalError", data)
        ELSE LET rec == find(data, args[1]).ret
                 e == IF command = CmdAddBirthday THEN add_birthday(rec, args[2])
                      ELSE IF command = CmdAddAddress THEN add_address(rec, args[2])
                      ELSE add_email(rec, args[2])
             IN  IF e.err # "none" THEN Err(e.err, DictSet(data, args[1], e.rec))
                 ELSE Ok(DictSet(data, args[1], e.rec), "Contact updated"))

\* CliHelperBot.execute_command: the outcomes the call may have
execute_command(data, command, args, today) ==
    LET handled ==
          IF command \in {CmdClose, CmdExit} THEN { stop(data) }
          ELSE IF command = CmdHello THEN { say_hello(data, args) }
          ELSE IF command = CmdAdd THEN { add_contact(data, args) }
          ELSE IF command = CmdChange THEN { change_contact(data, args) }
          ELSE IF command = CmdPhone THEN { get_contact(data, args) }
          ELSE IF command = CmdSearch THEN search_contact(data, args)
          ELSE IF command = CmdAll THEN { print_all_contacts(data, args) }
          ELSE IF command = CmdShowBirthday THEN { show_birthday(data, args) }
          ELSE IF command = CmdBirthdays THEN { birthdays(data, args, today) }
          ELSE IF command \in {CmdAddBirthday, CmdAddAddress, CmdAddEmail}
          THEN { cli_add_field(command, data, args) }
          ELSE { Err("CommandNotSupported", data) }
    IN  { input_error("Command execution failed", out) : out \in handled }

\* one turn of the loop of CliHelperBot.main: the outcomes it may have; an
\* exception other than CliHelperSigStop is printed and raised again
main_turn(data, user_input, today) ==
    IF parse_input(user_input).err # "none"
    THEN { Err(parse_input(user_input).err, data) }
    ELSE execute_command(data, parse_input(user_input).ret.command,
                         parse_input(user_input).ret.args, today)

\* words joined by single spaces
RECURSIVE Line(_)
Line(words) ==
    IF words = <<>> THEN <<>>
    ELSE IF Len(words) = 1 THEN words[1]
    ELSE words[1] \o <<" ">> \o Line(Tail(words))

\* the lines typed at the prompt
CommandLines ==
    { Line(words) : words \in
        { <<CmdClose>>, <<CmdExitUpper>>, <<CmdExit, Ann>>, <<CmdHello>>, <<CmdRemove, Ann>>,
          <<CmdAdd, Ann, P1>>, <<CmdAdd, Ann>>, <<CmdAdd, Bob, PShort>>,
          <<CmdChange, Ann, P2>>, <<CmdChange, Bob, P2>>, <<CmdChange, Cat, P1>>,
          <<CmdPhone, Ann>>, <<CmdSearch, Bob>>, <<CmdSearch, N123>>, <<CmdAll>>,
          <<CmdAddBirthday, Ann, BGood>>, <<CmdAddBirthday, Ann, Town>>,
          <<CmdAddBirthday, Ann, BLeap>>, <<CmdShowBirthday, Ann>>,
          <<CmdBirthdays, <<"7">>>>, <<CmdBirthdays, Town>>,
          <<CmdAddAddress, Ann, Town>>, <<CmdAddEmail, Ann, EGood>>,
          <<CmdAddEmail, Ann, EBad>> } }
      \cup { <<>>, <<" ">> }

\* the dates on which the loop runs
LoopTodays == { Date(2024, 1, 5), Date(2023, 1, 10) }

\* the address book the loop starts with: empty, or loaded from a file that
\* holds a contact without phones
InitLoop ==
    /\ call = [fn |-> "main", arg |-> <<>>, err |-> "none", ret |-> "prompt"]
    /\ record = RecordInit(Ann, <<>>, PyNone, PyNone, PyNone).ret
    /\ rlast = [op |-> "__init__", a1 |-> <<>>, a2 |-> <<>>,
                err |-> "none", pre |-> PyNone]
    /\ address_book \in
          { <<>>,
            load_data_from_json(<<>>,
                <<ContactObject(Cat, <<>>, Str(BGood), NoneStr, Str(EGood))>>).data }
    /\ notes_book = <<>>
    /\ blast = IdleBlast
    /\ reader = IdleReader

\* one line is read and handled; the loop runs while no exception has left it
Turn ==
    /\ call.err = "none"
    /\ \E user_input \in CommandLines, today \in LoopTodays :
          \E out \in main_turn(address_book, user_input, today) :
              /\ address_book' = out.data
              /\ call' = [fn |-> "main", arg |-> user_input, err |-> out.err,
                           ret |-> IF out.err = "none" THEN out.ret ELSE ""]
              /\ UNCHANGED <<record, rlast, notes_book, blast, reader>>

NextLoop == Turn

SpecLoop == InitLoop /\ [][NextLoop]_vars

\* the line is the close or the exit command, ignoring case
IsStopLine(line) ==
    split(line) # <<>> /\ casefold(Head(split(line))) \in {CmdClose, CmdExit}

\* C30: the command loop ends only on the close or exit command, matched
\* ignoring case: every other line, an empty line included, produces an
\* output message and the loop goes on to the next prompt.
C30_LoopEndsOnlyOnCloseOrExit ==
    (call.fn = "main" /\ call.ret # "prompt") =>
        IF IsStopLine(call.arg)
        THEN call.err = "CliHelperSigStop"
        ELSE call.err = "none" /\ call.ret # ""

\* an empty line ends the loop with the ValueError of parse_input
C30_EmptyLineEndsLoop ==
    /\ call.fn = "main"
    /\ split(call.arg) = <<>>
    /\ call.err = "ValueError"

====
